---------------------------- MODULE Spec2Model ----------------------------
(***************************************************************************)
(* The streaming session manager of the chat client: the useChat hook of   *)
(* src/web/hooks/useChat.ts.  One hook instance owns the transcript        *)
(* (turns), the status, the error string and four refs; every accepted     *)
(* sendMessage opens one EventSource whose three listeners (message, end,  *)
(* error) fold the server's frames into the transcript.                    *)
(*                                                                         *)
(* The browser runs one task at a time, so every handler is one atomic     *)
(* action.  React applies queued state updaters in the order they were     *)
(* queued and flushes the updates of a submit handler before the browser   *)
(* dispatches any event of the connection that handler opened, so the     *)
(* state variables hold the hook's state with every queued update applied. *)
(***************************************************************************)
EXTENDS Integers, Sequences, FiniteSets, TLC

(* ------------------------------ bounds -------------------------------- *)

\* accepted sendMessage calls (turns of the transcript) explored
MaxTurns == 2

\* frames the server pushes over the whole session
MaxFrames == 2

(* --------------------------- value sentinels -------------------------- *)

\* JavaScript null held by a string-typed state or ref
Null == "null"

\* JavaScript undefined (a property that is not there)
Undefined == "undefined"

\* streamRef.current / cleanupRef.current === null (connections are 1, 2, ...)
NoStream == 0

\* activeTurnIndexRef.current === null (turn indexes are 0, 1, ...)
NullIndex == -1

(* ------------------------------- inputs ------------------------------- *)

\* texts the user may submit, as sequences of characters
Texts == { <<>>, <<" ">>, <<" ", "q", " ">> }

\* values of NEXT_PUBLIC_CHAT_BASE_URL: not set, a well-formed URL, and a
\* string the URL parser rejects (new EventSource throws SyntaxError on it)
BaseUrlUnset == ""
BaseUrlGood == "http://localhost:8000"
BaseUrlMalformed == "http://["
BaseUrls == { BaseUrlUnset, BaseUrlGood, BaseUrlMalformed }

\* frames of the message channel (event.data texts)
FrameNotJson == "{not json"
FrameNull == "null"
FramePing == "{\"event\":\"ping\"}"
FrameNoData == "{\"event\":\"message\"}"
FrameTurnStartC1 == "{\"event\":\"message\",\"data\":{\"type\":\"turn.start\",\"conversation_id\":\"c1\"}}"
FrameTurnStartC2 == "{\"event\":\"message\",\"data\":{\"type\":\"turn.start\",\"conversation_id\":\"c2\"}}"
FrameSearchStart == "{\"event\":\"message\",\"data\":{\"type\":\"search.start\",\"query\":\"taipei weather\"}}"
FrameSearchEnd == "{\"event\":\"message\",\"data\":{\"type\":\"search.end\",\"query\":\"taipei weather\",\"results\":5}}"
FrameStepStart == "{\"event\":\"message\",\"data\":{\"type\":\"step.start\",\"title\":\"Search\"}}"
FrameTurnStartNull == "{\"event\":\"message\",\"data\":{\"type\":\"turn.start\",\"conversation_id\":null}}"
FrameAnswer == "{\"event\":\"message\",\"data\":{\"type\":\"answer\",\"answer\":\"It is sunny.\",\"citations\":[]}}"
FrameBogus == "{\"event\":\"message\",\"data\":{\"type\":\"bogus\"}}"

MessageFrames ==
  { FrameNotJson, FrameNull, FramePing, FrameNoData,
    FrameTurnStartC1, FrameTurnStartC2, FrameSearchStart, FrameStepStart,
    FrameAnswer, FrameBogus }

\* frames of the end channel
FrameDone == "{\"message\":\"[DONE]\"}"
FrameBye == "{\"message\":\"bye\"}"
EndFrames == { FrameDone, FrameBye, FrameNotJson, FrameNull }

\* frames of the error channel; a transport failure is an Event without data
FrameErrorBoom == "{\"error\":\"boom\"}"
FrameErrorEmpty == "{\"error\":\"\"}"
FrameEmptyObject == "{}"
FrameEmptyText == ""
ErrorFrames ==
  { FrameErrorBoom, FrameErrorEmpty, FrameEmptyObject, FrameEmptyText,
    FrameNotJson, FrameNull }

MessageEvent(data) == [hasData |-> TRUE, data |-> data]
TransportErrorEvent == [hasData |-> FALSE, data |-> Undefined]
ErrorEvents == { MessageEvent(d) : d \in ErrorFrames } \cup { TransportErrorEvent }

(* ----------------------------- JSON.parse ------------------------------ *)

\* the data property of a parsed envelope: its kind, and the two fields the
\* hook reads (type, conversation_id) and the texts the turn view renders
\* (answer, delta, title); the other fields of the payload travel with the
\* object
NoData ==
  [kind |-> "undefined", type |-> Undefined, conversation_id |-> Undefined,
   answer |-> Undefined, delta |-> Undefined, title |-> Undefined]
ObjectData(type, cid) ==
  [NoData EXCEPT !.kind = "object", !.type = type, !.conversation_id = cid]

\* an answer message; its text is a sequence of pieces, a white-space
\* character being a piece of its own
AnswerData(text) == [ObjectData("answer", Undefined) EXCEPT !.answer = text]

SyntaxError ==
  [ok |-> FALSE, null |-> FALSE, event |-> Undefined, data |-> NoData,
   message |-> Undefined, error |-> Undefined]
ParsedNull == [SyntaxError EXCEPT !.ok = TRUE, !.null = TRUE]
ParsedObject == [SyntaxError EXCEPT !.ok = TRUE]
Envelope(data) == [ParsedObject EXCEPT !.event = "message", !.data = data]

\* JSON.parse on the frames above: a SyntaxError, null, or the object read
JSONparse(text) ==
  CASE text = FrameNull -> ParsedNull
    [] text = FramePing -> [ParsedObject EXCEPT !.event = "ping"]
    [] text = FrameNoData -> Envelope(NoData)
    [] text = FrameTurnStartC1 -> Envelope(ObjectData("turn.start", "c1"))
    [] text = FrameTurnStartC2 -> Envelope(ObjectData("turn.start", "c2"))
    [] text = FrameTurnStartNull -> Envelope(ObjectData("turn.start", Null))
    [] text = FrameSearchStart -> Envelope(ObjectData("search.start", Undefined))
    [] text = FrameStepStart -> Envelope(ObjectData("step.start", Undefined))
    [] text = FrameSearchEnd -> Envelope(ObjectData("search.end", Undefined))
    [] text = FrameAnswer -> Envelope(AnswerData(<<"It is sunny.">>))
    [] text = FrameBogus -> Envelope(ObjectData("bogus", Undefined))
    [] text = FrameDone -> [ParsedObject EXCEPT !.message = "[DONE]"]
    [] text = FrameBye -> [ParsedObject EXCEPT !.message = "bye"]
    [] text = FrameErrorBoom -> [ParsedObject EXCEPT !.error = "boom"]
    [] text = FrameErrorEmpty -> [ParsedObject EXCEPT !.error = ""]
    [] text = FrameEmptyObject -> ParsedObject
    [] OTHER -> SyntaxError

\* JavaScript truthiness of a string-or-missing value
Truthy(v) == v # Undefined /\ v # Null /\ v # ""

(* --------------------------- the event schema -------------------------- *)

\* the discriminants of the StreamMessage union
StreamMessageTypes ==
  { "turn.start", "search.start", "search.end", "rank.start", "rank.end",
    "fetch.start", "fetch.end", "answer-delta", "answer" }

\* a payload that is a StreamMessage of the schema
IsValidStreamMessage(value) ==
  /\ value.kind = "object"
  /\ value.type \in StreamMessageTypes
  /\ (value.type = "turn.start" => value.conversation_id \notin { Undefined, Null })

\* the type guard the message handler applies
isStreamMessage(value) ==
  IF value.kind # "object"
  THEN FALSE
  ELSE value.type \in
         { "turn.start", "step.start", "step.status", "step.end",
           "step.fetch.start", "step.fetch.end", "step.answer.start",
           "step.answer.delta", "step.answer.end", "answer" }

(* ------------------------------- trim --------------------------------- *)

IsWhiteSpace(ch) == ch \in { " ", "\t", "\n" }

RECURSIVE trimStart(_)
trimStart(t) ==
  IF t # <<>> /\ IsWhiteSpace(Head(t)) THEN trimStart(Tail(t)) ELSE t

RECURSIVE trimEnd(_)
trimEnd(t) ==
  IF t # <<>> /\ IsWhiteSpace(t[Len(t)])
  THEN trimEnd(SubSeq(t, 1, Len(t) - 1))
  ELSE t

\* String.prototype.trim
trim(t) == trimEnd(trimStart(t))

(* ------------------------------- state -------------------------------- *)

VARIABLES
  turns,               \* useState<TurnData[]>
  status,              \* useState<ChatStatus>
  error,               \* useState<string | null>
  streamRef,           \* the EventSource the hook holds, or NoStream
  cleanupRef,          \* the connection whose cleanup the hook holds
  activeTurnIndexRef,  \* index of the turn that receives messages
  conversationIdRef,   \* conversation identifier last recorded
  conns,               \* every EventSource constructed so far
  mounted,             \* the component is mounted
  baseUrl,             \* process.env.NEXT_PUBLIC_CHAT_BASE_URL
  thrown,              \* the last handler let an exception escape
  delivered,           \* per connection: the StreamMessages handed to its listener
  cleanedUp,           \* connections whose cleanup has run
  frames,              \* frames the server has pushed so far
  lastOp,              \* the operation that produced this state
  props,               \* the argument handed to a function of the turn view
  rendered             \* what that function returned, once it has run

vars ==
  << turns, status, error, streamRef, cleanupRef, activeTurnIndexRef,
     conversationIdRef, conns, mounted, baseUrl, thrown, delivered,
     cleanedUp, frames, lastOp, props, rendered >>

\* the hook and its connections
hookVars ==
  << turns, status, error, streamRef, cleanupRef, activeTurnIndexRef,
     conversationIdRef, conns, mounted, baseUrl, thrown, delivered,
     cleanedUp, frames, lastOp >>

\* the turn view
viewVars == << props, rendered >>

\* what the hook returns and remembers: the state cancel and the stream
\* handlers must not touch once a connection is gone
hookState == << turns, status, error, conversationIdRef >>

\* the state the handlers work on, as one record
Hook ==
  [ turns |-> turns, status |-> status, error |-> error,
    streamRef |-> streamRef, cleanupRef |-> cleanupRef,
    activeTurnIndexRef |-> activeTurnIndexRef,
    conversationIdRef |-> conversationIdRef, conns |-> conns,
    thrown |-> FALSE, cleanedUp |-> cleanedUp ]

Commit(s) ==
  /\ turns' = s.turns
  /\ status' = s.status
  /\ error' = s.error
  /\ streamRef' = s.streamRef
  /\ cleanupRef' = s.cleanupRef
  /\ activeTurnIndexRef' = s.activeTurnIndexRef
  /\ conversationIdRef' = s.conversationIdRef
  /\ conns' = s.conns
  /\ thrown' = s.thrown
  /\ cleanedUp' = s.cleanedUp

Op(name, conn, text, data) ==
  [op |-> name, conn |-> conn, text |-> text, data |-> data]

\* the hook after its first render
InitHook ==
  /\ turns = <<>>
  /\ status = "ready"
  /\ error = Null
  /\ streamRef = NoStream
  /\ cleanupRef = NoStream
  /\ activeTurnIndexRef = NullIndex
  /\ conversationIdRef = Null
  /\ conns = <<>>
  /\ mounted = TRUE
  /\ baseUrl \in BaseUrls
  /\ thrown = FALSE
  /\ delivered = <<>>
  /\ cleanedUp = {}
  /\ frames = 0
  /\ lastOp = Op("init", NoStream, <<>>, Undefined)

Init ==
  /\ InitHook
  /\ props = <<>>
  /\ rendered = <<>>


(* ------------------------- createChatStream --------------------------- *)

\* new EventSource(url) succeeds when the URL parses
UrlParses(base) == base = BaseUrlGood

\* the EventSource createChatStream constructs, its three listeners added
NewEventSource(params, turnIndex) ==
  [ url |-> params, readyState |-> "OPEN",
    listeners |-> { "message", "end", "error" },
    closeCalls |-> 0, turnIndex |-> turnIndex ]

\* the browser hands an event of connection c to the listener of a channel
Dispatches(c, channel) ==
  /\ conns[c].readyState # "CLOSED"
  /\ channel \in conns[c].listeners

\* an onCleanup that leaves the stream and its cleanup in the refs
onCleanupKeepsRefs(c, nextStatus, s) ==
  [ s EXCEPT !.activeTurnIndexRef = NullIndex ]

\* the onCleanup callback sendMessage passes for connection c
onCleanup(c, nextStatus, s) ==
  [ s EXCEPT
      !.streamRef = IF s.streamRef = c THEN NoStream ELSE @,
      !.cleanupRef = IF s.cleanupRef = c THEN NoStream ELSE @,
      !.activeTurnIndexRef = NullIndex ]

\* a cleanup that forgets to detach the listeners and to close the stream
cleanupLeavesStreamOpen(c, nextStatus, s) ==
  onCleanup(c, nextStatus,
            [ s EXCEPT !.status = nextStatus, !.cleanedUp = @ \cup {c} ])

\* cleanup of connection c: remove the listeners, close, set the status
cleanup(c, nextStatus, s) ==
  onCleanup(c, nextStatus,
            [ s EXCEPT
                !.conns[c].listeners = {},
                !.conns[c].readyState = "CLOSED",
                !.conns[c].closeCalls = @ + 1,
                !.status = nextStatus,
                !.cleanedUp = @ \cup {c} ])

\* an appendMessage that overwrites the turn's messages with the new one
appendMessageReplaces(message, s) ==
  LET turnIndex == s.activeTurnIndexRef
      s1 == IF message.type = "turn.start"
            THEN [ s EXCEPT !.conversationIdRef = message.conversation_id ]
            ELSE s
  IN  IF turnIndex = NullIndex
      THEN s
      ELSE IF turnIndex < 0 \/ turnIndex >= Len(s1.turns)
           THEN s1
           ELSE [ s1 EXCEPT !.turns[turnIndex + 1].messages = << message >> ]

\* the appendMessage closure: reads the shared refs when it is called
appendMessage(message, s) ==
  LET turnIndex == s.activeTurnIndexRef
      s1 == IF message.type = "turn.start"
            THEN [ s EXCEPT !.conversationIdRef = message.conversation_id ]
            ELSE s
  IN  IF turnIndex = NullIndex
      THEN s
      ELSE IF turnIndex < 0 \/ turnIndex >= Len(s1.turns)
           THEN s1
           ELSE [ s1 EXCEPT !.turns[turnIndex + 1].messages = Append(@, message) ]

\* a message handler that swallows a frame it cannot parse
handleStreamMessageSwallowsParseError(c, event, s) ==
  LET parsed == JSONparse(event.data)
  IN  IF parsed.ok /\ ~parsed.null /\ parsed.event = "message"
         /\ parsed.data.kind # "undefined" /\ isStreamMessage(parsed.data)
      THEN appendMessage(parsed.data, s)
      ELSE s

\* a message handler that treats an unknown payload as a parse failure
handleStreamMessageUnknownIsFatal(c, event, s) ==
  LET parsed == JSONparse(event.data)
  IN  IF ~parsed.ok
      THEN cleanup(c, "error", [ s EXCEPT !.error = "Failed to parse stream message" ])
      ELSE IF parsed.null \/ parsed.event # "message"
           THEN s
           ELSE IF parsed.data.kind = "undefined"
                THEN s
                ELSE IF ~isStreamMessage(parsed.data)
                     THEN cleanup(c, "error",
                                  [ s EXCEPT !.error = "Failed to parse stream message" ])
                     ELSE appendMessage(parsed.data, s)

\* a message handler that ends the stream on a frame that is no message
\* envelope or carries no data
handleStreamMessageStrayIsFatal(c, event, s) ==
  LET parsed == JSONparse(event.data)
      failed == cleanup(c, "error",
                        [ s EXCEPT !.error = "Failed to parse stream message" ])
  IN  IF ~parsed.ok
      THEN failed
      ELSE IF parsed.null \/ parsed.event # "message"
           THEN failed
           ELSE IF parsed.data.kind = "undefined"
                THEN failed
                ELSE IF ~isStreamMessage(parsed.data)
                     THEN s
                     ELSE appendMessage(parsed.data, s)

\* a message handler that takes the answer message for the end of the stream
handleStreamMessageAnswerEndsStream(c, event, s) ==
  LET parsed == JSONparse(event.data)
  IN  IF ~parsed.ok
      THEN cleanup(c, "error", [ s EXCEPT !.error = "Failed to parse stream message" ])
      ELSE IF parsed.null \/ parsed.event # "message"
           THEN s
           ELSE IF parsed.data.kind = "undefined"
                THEN s
                ELSE IF ~isStreamMessage(parsed.data)
                     THEN s
                     ELSE IF parsed.data.type = "answer"
                          THEN cleanup(c, "ready", appendMessage(parsed.data, s))
                          ELSE appendMessage(parsed.data, s)

\* the listener of the message channel of connection c
handleStreamMessage(c, event, s) ==
  LET parsed == JSONparse(event.data)
  IN  IF ~parsed.ok
      THEN cleanup(c, "error", [ s EXCEPT !.error = "Failed to parse stream message" ])
      ELSE IF parsed.null \/ parsed.event # "message"
           THEN s
           ELSE IF parsed.data.kind = "undefined"
                THEN s
                ELSE IF ~isStreamMessage(parsed.data)
                     THEN s
                     ELSE appendMessage(parsed.data, s)

\* an end handler that reports completion but leaves the stream as it is
handleStreamEndKeepsStream(c, event, s) ==
  LET payload == JSONparse(event.data)
  IN  IF ~payload.ok \/ payload.null
      THEN cleanup(c, "error",
                   [ s EXCEPT !.error = "Failed to parse stream end payload" ])
      ELSE [ s EXCEPT !.status = "ready" ]

\* an end handler that completes the stream whatever the payload is
handleStreamEndIgnoresPayload(c, event, s) == cleanup(c, "ready", s)

\* the listener of the end channel of connection c
handleStreamEnd(c, event, s) ==
  LET payload == JSONparse(event.data)
  IN  IF ~payload.ok \/ payload.null
      THEN cleanup(c, "error",
                   [ s EXCEPT !.error = "Failed to parse stream end payload" ])
      ELSE cleanup(c, "ready", s)

\* an error handler that never reads the payload of the event
handleStreamErrorAlwaysGeneric(c, event, s) ==
  cleanup(c, "error", [ s EXCEPT !.error = "Streaming connection failed" ])

\* an error handler that opens the stream again after closing it
handleStreamErrorRetries(c, event, s) ==
  LET s1 == cleanup(c, "error",
                    [ s EXCEPT !.error = "Streaming connection failed" ])
  IN  [ s1 EXCEPT
          !.conns = Append(@, NewEventSource(s.conns[c].url, s.conns[c].turnIndex)),
          !.streamRef = Len(s.conns) + 1,
          !.cleanupRef = Len(s.conns) + 1 ]

\* the listener of the error channel of connection c
handleStreamError(c, event, s) ==
  LET generic == cleanup(c, "error",
                         [ s EXCEPT !.error = "Streaming connection failed" ])
  IN  IF event.hasData /\ event.data # ""
      THEN LET payload == JSONparse(event.data)
           IN  IF payload.ok /\ ~payload.null /\ Truthy(payload.error)
               THEN cleanup(c, "error", [ s EXCEPT !.error = payload.error ])
               ELSE generic
      ELSE generic

(* ------------------------------ useChat -------------------------------- *)

\* a cancel that sets the status although no cleanup is held
cancelAlwaysSetsReady(s) ==
  IF s.cleanupRef # NoStream
  THEN [ cleanup(s.cleanupRef, "ready", s) EXCEPT !.cleanupRef = NoStream ]
  ELSE [ s EXCEPT !.status = "ready", !.error = Null ]

\* cancel: run the held cleanup, if any, with status ready
cancel(s) ==
  LET s1 == IF s.cleanupRef # NoStream
            THEN cleanup(s.cleanupRef, "ready", s)
            ELSE s
  IN  [ s1 EXCEPT !.cleanupRef = NoStream ]

\* a query that always carries an identifier, made up when none is stored
StreamParamsInventsId(question, s) ==
  [ user_message |-> question,
    conversation_id |-> IF Truthy(s.conversationIdRef)
                        THEN s.conversationIdRef
                        ELSE "c1" ]

\* the query of the stream URL
StreamParams(question, s) ==
  [ user_message |-> question,
    conversation_id |-> IF Truthy(s.conversationIdRef)
                        THEN s.conversationIdRef
                        ELSE Undefined ]

\* a sendMessage whose turn updater has not run when the stream is stored:
\* the turn is appended but the active turn index is still unassigned
OpenStreamBeforeUpdater(question, s) ==
  LET s1 == [ s EXCEPT
                !.turns = Append(@, [ question |-> question, messages |-> <<>> ]),
                !.status = "streaming",
                !.error = Null ]
      c == Len(s.conns) + 1
  IN  IF ~UrlParses(baseUrl)
      THEN [ s1 EXCEPT !.thrown = TRUE ]
      ELSE [ s1 EXCEPT
               !.conns = Append(@, NewEventSource(StreamParams(question, s),
                                                  Len(s.turns))),
               !.streamRef = c,
               !.cleanupRef = c ]

\* the part of sendMessage after its guards: append the turn, set the
\* status, clear the error, construct the stream and store it in the refs
OpenStream(question, s) ==
  LET s1 == [ s EXCEPT
                !.turns = Append(@, [ question |-> question, messages |-> <<>> ]),
                !.activeTurnIndexRef = Len(s.turns) + 1 - 1,
                !.status = "streaming",
                !.error = Null ]
      c == Len(s.conns) + 1
  IN  IF ~UrlParses(baseUrl)
      THEN [ s1 EXCEPT !.thrown = TRUE ]
      ELSE [ s1 EXCEPT
               !.conns = Append(@, NewEventSource(StreamParams(question, s),
                                                  Len(s.turns))),
               !.streamRef = c,
               !.cleanupRef = c ]

\* a sendMessage that does not look at the stream it already holds
sendMessageIgnoresOpenStream(text, s) ==
  LET question == trim(text)
  IN  IF question = <<>>
      THEN s
      ELSE IF ~Truthy(baseUrl)
           THEN [ s EXCEPT !.error = "Chat service URL is not configured" ]
           ELSE OpenStream(question, s)

\* a sendMessage that reads the configuration before it looks at the text
sendMessageChecksUrlFirst(text, s) ==
  LET question == trim(text)
  IN  IF ~Truthy(baseUrl)
      THEN [ s EXCEPT !.error = "Chat service URL is not configured" ]
      ELSE IF question = <<>> \/ s.streamRef # NoStream
           THEN s
           ELSE OpenStream(question, s)

\* a sendMessage that returns without a word when no base URL is set
sendMessageSilentWithoutUrl(text, s) ==
  LET question == trim(text)
  IN  IF question = <<>> \/ s.streamRef # NoStream \/ ~Truthy(baseUrl)
      THEN s
      ELSE OpenStream(question, s)

\* a sendMessage that keeps the error of the previous stream
sendMessageKeepsError(text, s) ==
  LET question == trim(text)
  IN  IF question = <<>> \/ s.streamRef # NoStream
      THEN s
      ELSE IF ~Truthy(baseUrl)
           THEN [ s EXCEPT !.error = "Chat service URL is not configured" ]
           ELSE [ OpenStream(question, s) EXCEPT !.error = s.error ]

\* a sendMessage that keeps the text as typed, white space included
sendMessageStoresRawText(text, s) ==
  IF trim(text) = <<>> \/ s.streamRef # NoStream
  THEN s
  ELSE IF ~Truthy(baseUrl)
       THEN [ s EXCEPT !.error = "Chat service URL is not configured" ]
       ELSE OpenStream(text, s)

\* sendMessage({ text })
sendMessage(text, s) ==
  LET question == trim(text)
  IN  IF question = <<>> \/ s.streamRef # NoStream
      THEN s
      ELSE IF ~Truthy(baseUrl)
           THEN [ s EXCEPT !.error = "Chat service URL is not configured" ]
           ELSE OpenStream(question, s)

(* ----------------------------- turn view ------------------------------ *)

\* the last item of a list, undefined when the list is empty
getLast(items) == IF Len(items) = 0 THEN Undefined ELSE items[Len(items)]

\* a value that is a text, so neither null nor undefined
IsText(value) == value \in Seq(STRING)

IsAnswerMessage(message) == message.type = "answer"
IsAnswerDeltaMessage(message) == message.type = "answer-delta"

\* answerDeltas.map(m => m.delta).join("")
RECURSIVE JoinDeltas(_)
JoinDeltas(deltas) ==
  IF deltas = <<>> THEN <<>> ELSE Head(deltas).delta \o JoinDeltas(Tail(deltas))

\* a turn view that reads the answer from the deltas only
extractAnswerFromDeltasOnly(messages) ==
  LET combinedAnswer == JoinDeltas(SelectSeq(messages, IsAnswerDeltaMessage))
  IN  [ content |-> IF combinedAnswer # <<>> THEN trim(combinedAnswer) ELSE <<>> ]

\* the answer text the turn view renders from a turn's messages: the text
\* of the latest answer message, else the deltas joined, trimmed; the
\* references it derives from the citations are left out
extractAnswer(messages) ==
  LET answerMessages == SelectSeq(messages, IsAnswerMessage)
      answerDeltas == SelectSeq(messages, IsAnswerDeltaMessage)
      combinedAnswer ==
        IF Len(answerMessages) > 0 /\ IsText(getLast(answerMessages).answer)
        THEN getLast(answerMessages).answer
        ELSE JoinDeltas(answerDeltas)
  IN  [ content |-> IF combinedAnswer # <<>> THEN trim(combinedAnswer) ELSE <<>> ]

\* every list of at most n items of a set
ListsUpTo(S, n) == UNION { [1..k -> S] : k \in 0..n }

\* a message of the step.* shape with its title
StepMessage(type, title) == [ ObjectData(type, Undefined) EXCEPT !.title = title ]

\* messages.filter(m => m.type === type).length
CountOfType(messages, type) ==
  Cardinality({ i \in 1..Len(messages) : messages[i].type = type })

\* stepStarts.filter(m => m.title === title).length, and the like
CountOfTitle(messages, type, title) ==
  Cardinality({ i \in 1..Len(messages) :
                  messages[i].type = type /\ messages[i].title = title })

computeStepStatus(hasStarted, hasCompleted) ==
  IF hasCompleted THEN "complete" ELSE IF hasStarted THEN "active" ELSE "pending"

\* buildWorkflowSteps of app/turn.tsx: the title and the status of each
\* step (the detail it renders next to them is left out)
buildWorkflowSteps_app(messages) ==
  << [ title |-> "Search",
       status |-> computeStepStatus(CountOfType(messages, "search.start") > 0,
                                    CountOfType(messages, "search.end") > 0) ],
     [ title |-> "Rank",
       status |-> computeStepStatus(CountOfType(messages, "rank.start") > 0,
                                    CountOfType(messages, "rank.end") > 0) ],
     [ title |-> "Fetch",
       status |-> computeStepStatus(CountOfType(messages, "fetch.start") > 0,
                                    CountOfType(messages, "fetch.end") > 0) ],
     [ title |-> "Answer",
       status |-> IF CountOfType(messages, "answer") > 0
                  THEN "complete"
                  ELSE IF CountOfType(messages, "answer-delta") > 0
                       THEN "active"
                       ELSE "pending" ] >>

PLANNING_STEP_TITLE == "Planning the appropriate route"
SEARCH_STEP_TITLE == "Running web search"
RANK_STEP_TITLE == "Ranking candidate sources"
FETCH_STEP_TITLE == "Fetching supporting details"
ANSWER_STEP_TITLE == "Answering the question"

\* the status of a step that step.start and step.end messages of a title
\* drive, in components/turn.tsx
TitledStepStatus(messages, title) ==
  LET starts == CountOfTitle(messages, "step.start", title)
      ends == CountOfTitle(messages, "step.end", title)
  IN  computeStepStatus(starts > 0, ends > 0 /\ ends >= starts)

\* buildWorkflowSteps of components/turn.tsx: the title and the status of
\* each step (the detail it renders next to them is left out)
buildWorkflowSteps_components(messages) ==
  LET fetchStarts == CountOfType(messages, "step.fetch.start")
      fetchEnds == CountOfType(messages, "step.fetch.end")
      answerStarts == CountOfType(messages, "step.answer.start")
      answerDeltas == CountOfType(messages, "step.answer.delta")
      answerEnds == CountOfType(messages, "step.answer.end")
      answerMessages == CountOfType(messages, "answer")
      answerHasStarted == answerStarts > 0 \/ answerDeltas > 0 \/ answerMessages > 0
      answerHasCompleted == answerMessages > 0 \/ answerEnds > 0
  IN  << [ title |-> PLANNING_STEP_TITLE,
           status |-> TitledStepStatus(messages, PLANNING_STEP_TITLE) ],
         [ title |-> SEARCH_STEP_TITLE,
           status |-> TitledStepStatus(messages, SEARCH_STEP_TITLE) ],
         [ title |-> RANK_STEP_TITLE,
           status |-> TitledStepStatus(messages, RANK_STEP_TITLE) ],
         [ title |-> FETCH_STEP_TITLE,
           status |-> computeStepStatus(fetchStarts > 0,
                                        fetchEnds > 0 /\ fetchEnds >= fetchStarts) ],
         [ title |-> ANSWER_STEP_TITLE,
           status |-> computeStepStatus(answerHasStarted, answerHasCompleted) ] >>

\* the step.* messages, which carry a title
isStepMessage(message) ==
  message.type \in { "step.start", "step.status", "step.end",
                     "step.fetch.start", "step.fetch.end",
                     "step.answer.start", "step.answer.delta",
                     "step.answer.end" }

\* message.type.startsWith("step.fetch"), then "step.answer"
determineStepKind(message) ==
  IF message.type \in { "step.fetch.start", "step.fetch.end" }
  THEN "fetch"
  ELSE IF message.type \in { "step.answer.start", "step.answer.delta",
                             "step.answer.end" }
       THEN "answer"
       ELSE "generic"

mergeStepKind(current, incoming) ==
  IF current = incoming
  THEN current
  ELSE IF current = "generic"
       THEN incoming
       ELSE current

isStartMessage(message) ==
  message.type \in { "step.start", "step.fetch.start", "step.answer.start" }

isEndMessage(message) ==
  message.type \in { "step.end", "step.fetch.end", "step.answer.end" }

\* a findOpenStep that takes the last step of the title, ended or not
findOpenStepIgnoresEnd(steps, title) ==
  LET candidates == { index \in 1..Len(steps) : steps[index].title = title }
  IN  IF candidates = {}
      THEN 0
      ELSE CHOOSE index \in candidates : \A other \in candidates : other <= index

\* findOpenStep: the position of the last step of the title that has no
\* end yet, 0 when there is none
findOpenStep(steps, title) ==
  LET candidates == { index \in 1..Len(steps) :
                        steps[index].title = title /\ ~steps[index].hasEnd }
  IN  IF candidates = {}
      THEN 0
      ELSE CHOOSE index \in candidates : \A other \in candidates : other <= index

\* the accumulator createStep pushes; members lists the positions of the
\* messages resolved to the step, where the code collects their
\* descriptions and pages
createStep(message) ==
  [ title |-> message.title,
    kind |-> determineStepKind(message),
    hasStart |-> FALSE,
    hasEnd |-> FALSE,
    hasAnswerDelta |-> FALSE,
    members |-> << >> ]

\* the loop of buildWorkflowSteps over the messages from position i on
RECURSIVE StepsLoop(_, _, _)
StepsLoop(messages, i, steps) ==
  IF i > Len(messages)
  THEN steps
  ELSE LET message == messages[i]
           open == findOpenStep(steps, message.title)
           creates == isStartMessage(message) \/ open = 0
           resolved == IF creates THEN Append(steps, createStep(message)) ELSE steps
           at == IF creates THEN Len(resolved) ELSE open
       IN  IF ~isStepMessage(message)
           THEN StepsLoop(messages, i + 1, steps)
           ELSE StepsLoop(messages, i + 1,
                  [ resolved EXCEPT
                      ![at].kind = mergeStepKind(@, determineStepKind(message)),
                      ![at].hasStart = TRUE,
                      ![at].hasEnd = @ \/ isEndMessage(message),
                      ![at].hasAnswerDelta = @ \/ message.type = "step.answer.delta",
                      ![at].members = Append(@, i) ])

\* with a final answer among the messages, the last step of kind answer
\* has ended
MarkFinalAnswer(messages, steps) ==
  LET answerSteps == { index \in 1..Len(steps) : steps[index].kind = "answer" }
  IN  IF CountOfType(messages, "answer") > 0 /\ answerSteps # {}
      THEN [ steps EXCEPT
               ![CHOOSE index \in answerSteps :
                   \A other \in answerSteps : other <= index].hasEnd = TRUE ]
      ELSE steps

\* buildWorkflowSteps of components/chat-form.tsx, keyed by title: the
\* title and the status of each step, with its kind and its members (the
\* detail it renders from them is left out)
buildWorkflowSteps_chatform(messages) ==
  LET steps == MarkFinalAnswer(messages, StepsLoop(messages, 1, << >>))
  IN  [ index \in 1..Len(steps) |->
          [ title |-> steps[index].title,
            status |-> computeStepStatus(steps[index].hasStart, steps[index].hasEnd),
            kind |-> steps[index].kind,
            members |-> steps[index].members ] ]

IsStepAnswerDeltaMessage(message) == message.type = "step.answer.delta"

\* extractAnswer of components/chat-form.tsx and components/turn.tsx: as
\* above, the deltas being the step.answer.delta messages
extractAnswer_components(messages) ==
  LET answerMessages == SelectSeq(messages, IsAnswerMessage)
      answerDeltas == SelectSeq(messages, IsStepAnswerDeltaMessage)
      combinedAnswer ==
        IF Len(answerMessages) > 0 /\ IsText(getLast(answerMessages).answer)
        THEN getLast(answerMessages).answer
        ELSE JoinDeltas(answerDeltas)
  IN  [ content |-> IF combinedAnswer # <<>> THEN trim(combinedAnswer) ELSE <<>> ]

\* text?.trim() || fallback, texts being sequences of pieces
TrimmedOr(text, fallback) ==
  IF IsText(text) /\ trim(text) # <<>> THEN trim(text) ELSE fallback

\* a title or snippet that is missing, null or empty: falsy alike
NoText == << >>

\* a PageSummary
Page(url, title, snippet) == [ url |-> url, title |-> title, snippet |-> snippet ]

\* !page.url
HasNoUrl(page) == page.url = "" \/ page.url = Undefined

\* the reference deriveReferencesFromPages pushes for a page
ReferenceOf(page) ==
  [ title |-> TrimmedOr(page.title, << page.url >>),
    description |-> TrimmedOr(page.snippet, << "No summary available." >>),
    href |-> page.url ]

\* the loop of deriveReferencesFromPages over the pages left, seen being
\* the URLs met so far
RECURSIVE ReferencesLoop(_, _)
ReferencesLoop(pages, seen) ==
  IF pages = <<>>
  THEN <<>>
  ELSE LET page == Head(pages)
       IN  IF HasNoUrl(page) \/ page.url \in seen
           THEN ReferencesLoop(Tail(pages), seen)
           ELSE << ReferenceOf(page) >>
                  \o ReferencesLoop(Tail(pages), seen \cup { page.url })

\* the entries renderPageList keeps before it stops
PreviewCap == 4

\* a reference list that stops at the cap of the inline preview
deriveReferencesCapped(pages) ==
  SubSeq(ReferencesLoop(pages, {}), 1,
         IF Len(ReferencesLoop(pages, {})) < PreviewCap
         THEN Len(ReferencesLoop(pages, {})) ELSE PreviewCap)

\* the final reference list of an answer's citations
deriveReferencesFromPages(pages) ==
  IF Len(pages) = 0 THEN <<>> ELSE ReferencesLoop(pages, {})

\* the loop of renderPageList over the pages left: skip a page without URL
\* or with a URL already seen, stop once the cap is reached
RECURSIVE UniquePagesLoop(_, _, _)
UniquePagesLoop(pages, seen, uniquePages) ==
  IF pages = <<>>
  THEN uniquePages
  ELSE LET page == Head(pages)
       IN  IF HasNoUrl(page) \/ page.url \in seen
           THEN UniquePagesLoop(Tail(pages), seen, uniquePages)
           ELSE IF Len(uniquePages) + 1 >= PreviewCap
                THEN Append(uniquePages, page)
                ELSE UniquePagesLoop(Tail(pages), seen \cup { page.url },
                                     Append(uniquePages, page))

\* a page list that shows every distinct page
renderPageListUncapped(pages) ==
  LET references == ReferencesLoop(pages, {})
  IN  IF references = <<>>
      THEN [ text |-> "No pages available.", items |-> <<>> ]
      ELSE [ text |-> Undefined,
             items |-> [ i \in 1..Len(references) |->
                           [ key |-> references[i].href,
                             title |-> references[i].title ] ] ]

\* the inline page list, fetch variant: the text shown when no page is
\* left, else one item per page kept, with its key and its title
renderPageList(pages) ==
  LET uniquePages == UniquePagesLoop(pages, {}, <<>>)
  IN  IF Len(uniquePages) = 0
      THEN [ text |-> "No pages available.", items |-> <<>> ]
      ELSE [ text |-> Undefined,
             items |-> [ i \in 1..Len(uniquePages) |->
                           [ key |-> uniquePages[i].url,
                             title |-> TrimmedOr(uniquePages[i].title,
                                                 << uniquePages[i].url >>) ] ] ]

(* ----------------------------- renderMarkdown ------------------------- *)

\* a line is a sequence of pieces: a marker (a fence of three back quotes
\* or tildes, a bullet, a hash), a white-space character or a word

\* the two fences, the one of back quotes written out
FenceMarkers == { "three back quotes", "~~~" }

\* trimmed.startsWith of a code fence
IsFenceLine(line) ==
  trim(line) # <<>> /\ Head(trim(line)) \in FenceMarkers

\* /^[-*+]\s+/ on the trimmed line
IsListItemLine(line) ==
  LET trimmed == trim(line)
  IN  /\ Len(trimmed) >= 2
      /\ trimmed[1] \in { "-", "*", "+" }
      /\ IsWhiteSpace(trimmed[2])

\* the hashes a text starts with
RECURSIVE LeadingHashes(_)
LeadingHashes(t) ==
  IF t # <<>> /\ Head(t) = "#" THEN 1 + LeadingHashes(Tail(t)) ELSE 0

\* the deepest heading
MaxHeadingLevel == 6

\* /^#{1,6}\s+/ on the trimmed line
IsHeadingLine(line) ==
  LET trimmed == trim(line)
      hashes == LeadingHashes(trimmed)
  IN  /\ hashes >= 1
      /\ hashes <= MaxHeadingLevel
      /\ Len(trimmed) > hashes
      /\ IsWhiteSpace(trimmed[hashes + 1])

\* an output element: its tag, the heading level, the texts it holds (the
\* items of a list, the lines of a code block, the text of a heading or of
\* a paragraph; inline markup is left as it is) and, kept for the
\* properties, the positions of the input lines it was made from
Element(tag, level, texts, from) ==
  [ tag |-> tag, level |-> level, texts |-> texts, from |-> from ]

\* renderMarkdown before the first line
MarkdownStart ==
  [ elements |-> <<>>, listBuffer |-> <<>>, listFrom |-> <<>>,
    codeBuffer |-> <<>>, codeFrom |-> <<>>, inCodeBlock |-> FALSE ]

flushList(st) ==
  IF Len(st.listBuffer) = 0
  THEN st
  ELSE [ st EXCEPT
           !.elements = Append(@, Element("ul", 0, st.listBuffer, st.listFrom)),
           !.listBuffer = <<>>,
           !.listFrom = <<>> ]

flushCode(st) ==
  IF ~st.inCodeBlock
  THEN st
  ELSE [ st EXCEPT
           !.elements = Append(@, Element("pre", 0, st.codeBuffer, st.codeFrom)),
           !.codeBuffer = <<>>,
           !.codeFrom = <<>>,
           !.inCodeBlock = FALSE ]

\* the body of lines.forEach for the line at position i
MarkdownLine(st, line, i) ==
  LET trimmed == trim(line)
      flushed == flushList(st)
  IN  IF IsFenceLine(line)
      THEN IF ~st.inCodeBlock
           THEN [ flushed EXCEPT !.inCodeBlock = TRUE,
                                 !.codeBuffer = <<>>, !.codeFrom = <<>> ]
           ELSE flushCode(st)
      ELSE IF st.inCodeBlock
      THEN [ st EXCEPT !.codeBuffer = Append(@, line),
                       !.codeFrom = Append(@, i) ]
      ELSE IF Len(trimmed) = 0
      THEN flushed
      ELSE IF IsListItemLine(line)
      THEN [ st EXCEPT !.listBuffer = Append(@, trimStart(Tail(trimmed))),
                       !.listFrom = Append(@, i) ]
      ELSE IF IsHeadingLine(line)
      THEN [ flushed EXCEPT
               !.elements =
                 Append(@, Element("h", LeadingHashes(trimmed),
                                   << trimStart(SubSeq(trimmed,
                                                       LeadingHashes(trimmed) + 1,
                                                       Len(trimmed))) >>,
                                   << i >>)) ]
      ELSE [ flushed EXCEPT
               !.elements = Append(@, Element("p", 0, << line >>, << i >>)) ]

\* lines.forEach from position i on
RECURSIVE MarkdownLoop(_, _, _)
MarkdownLoop(st, lines, i) ==
  IF i > Len(lines)
  THEN st
  ELSE MarkdownLoop(MarkdownLine(st, lines[i], i), lines, i + 1)

\* a renderMarkdown that forgets the code block left open at the end
renderMarkdownDropsOpenCode(lines) ==
  flushList(MarkdownLoop(MarkdownStart, lines, 1)).elements

\* renderMarkdown on the lines of content.split("\n")
renderMarkdown(lines) ==
  flushCode(flushList(MarkdownLoop(MarkdownStart, lines, 1))).elements

(* ------------------------------ actions -------------------------------- *)

\* sendMessage would get past its guards and append a turn
Accepts(text) ==
  trim(text) # <<>> /\ streamRef = NoStream /\ Truthy(baseUrl)

\* the user submits text
SendMessage(text) ==
  /\ mounted
  /\ Accepts(text) => Len(turns) < MaxTurns
  /\ Commit(sendMessage(text, Hook))
  /\ delivered' = IF Len(conns') > Len(conns) THEN Append(delivered, <<>>) ELSE delivered
  /\ lastOp' = Op("sendMessage", NoStream, text, Undefined)
  /\ UNCHANGED << mounted, baseUrl, frames, viewVars >>

\* the user cancels
Cancel ==
  /\ mounted
  /\ Commit(cancel(Hook))
  /\ lastOp' = Op("cancel", cleanupRef, <<>>, Undefined)
  /\ UNCHANGED << mounted, baseUrl, delivered, frames, viewVars >>

\* an unmount whose effect teardown does not call cancel
TeardownWithoutCancel ==
  /\ mounted
  /\ mounted' = FALSE
  /\ Commit(Hook)
  /\ lastOp' = Op("teardown", cleanupRef, <<>>, Undefined)
  /\ UNCHANGED << baseUrl, delivered, frames, viewVars >>

\* the component unmounts: the effect's teardown calls cancel
Teardown ==
  /\ mounted
  /\ mounted' = FALSE
  /\ Commit(cancel(Hook))
  /\ lastOp' = Op("teardown", cleanupRef, <<>>, Undefined)
  /\ UNCHANGED << baseUrl, delivered, frames, viewVars >>

\* the server pushes a frame on the message channel of connection c, one of
\* at most limit frames
PushMessage(limit, c, data) ==
  /\ frames < limit
  /\ frames' = frames + 1
  /\ Commit(IF Dispatches(c, "message")
            THEN handleStreamMessage(c, MessageEvent(data), Hook)
            ELSE Hook)
  /\ delivered' =
       IF Dispatches(c, "message") /\ JSONparse(data).ok
          /\ JSONparse(data).event = "message"
          /\ IsValidStreamMessage(JSONparse(data).data)
       THEN [ delivered EXCEPT ![c] = Append(@, JSONparse(data).data) ]
       ELSE delivered
  /\ lastOp' = Op("message", c, <<>>, data)
  /\ UNCHANGED << mounted, baseUrl, viewVars >>

StreamMessage(c, data) == PushMessage(MaxFrames, c, data)

\* the server pushes a frame on the end channel of connection c, one of at
\* most limit frames
PushEnd(limit, c, data) ==
  /\ frames < limit
  /\ frames' = frames + 1
  /\ Commit(IF Dispatches(c, "end")
            THEN handleStreamEnd(c, MessageEvent(data), Hook)
            ELSE Hook)
  /\ lastOp' = Op("end", c, <<>>, data)
  /\ UNCHANGED << mounted, baseUrl, delivered, viewVars >>

StreamEnd(c, data) == PushEnd(MaxFrames, c, data)

\* an error event of connection c: a server error frame or a transport failure
StreamError(c, event) ==
  /\ frames < MaxFrames
  /\ frames' = frames + 1
  /\ Commit(IF Dispatches(c, "error")
            THEN handleStreamError(c, event, Hook)
            ELSE Hook)
  /\ lastOp' = Op("error", c, <<>>, event.data)
  /\ UNCHANGED << mounted, baseUrl, delivered, viewVars >>

Next ==
  \/ \E text \in Texts : SendMessage(text)
  \/ Cancel
  \/ Teardown
  \/ \E c \in 1..Len(conns), data \in MessageFrames : StreamMessage(c, data)
  \/ \E c \in 1..Len(conns), data \in EndFrames : StreamEnd(c, data)
  \/ \E c \in 1..Len(conns), event \in ErrorEvents : StreamError(c, event)

Spec == Init /\ [][Next]_vars

\* a step that ends the stream of an open connection: the server sends an
\* end or an error event on it, or the user cancels, or the component
\* unmounts
StreamTerminates ==
  \/ \E c \in 1..Len(conns), data \in EndFrames :
       conns[c].readyState # "CLOSED" /\ StreamEnd(c, data)
  \/ \E c \in 1..Len(conns), event \in ErrorEvents :
       conns[c].readyState # "CLOSED" /\ StreamError(c, event)
  \/ (streamRef # NoStream /\ Cancel)
  \/ (streamRef # NoStream /\ Teardown)

\* the hook where an open stream is not left alone forever
SpecLive == Init /\ [][Next]_vars /\ WF_vars(StreamTerminates)


(* --------------------------- one conversation -------------------------- *)

\* the frames a conversation may hold, end signal included
MaxE2EFrames == 5

\* the message frames of the conversation
E2EFrames == { FrameTurnStartC1, FrameSearchStart, FrameSearchEnd, FrameAnswer }

InitE2E == Init /\ baseUrl = BaseUrlGood

\* the user asks questions and the server answers with the frames of the
\* conversation in any order, then ends the stream
NextE2E ==
  \/ \E text \in Texts : SendMessage(text)
  \/ \E c \in 1..Len(conns), data \in E2EFrames : PushMessage(MaxE2EFrames, c, data)
  \/ \E c \in 1..Len(conns) : PushEnd(MaxE2EFrames, c, FrameDone)

SpecE2E == InitE2E /\ [][NextE2E]_vars


(* ------------------------ a session of streams ------------------------- *)

\* the message frames of a session: turn.start with an identifier and with
\* a null one, and a step message
SessionFrames == { FrameTurnStartC1, FrameTurnStartNull, FrameStepStart }

InitSession == Init /\ baseUrl = BaseUrlGood

\* the user asks, cancels and leaves; the server sends the frames of the
\* session, ends the stream or the transport fails
NextSession ==
  \/ \E text \in Texts : SendMessage(text)
  \/ Cancel
  \/ Teardown
  \/ \E c \in 1..Len(conns), data \in SessionFrames : StreamMessage(c, data)
  \/ \E c \in 1..Len(conns) : StreamEnd(c, FrameDone)
  \/ \E c \in 1..Len(conns) : StreamError(c, TransportErrorEvent)

SpecSession == InitSession /\ [][NextSession]_vars


(* ------------------------- the workflow steps -------------------------- *)

\* the longest message list handed to the turn view
MaxMessages == 3

\* messages of the first protocol shape, as buildWorkflowSteps reads them
LegacyMessages ==
  { ObjectData(type, Undefined) :
      type \in { "search.start", "search.end", "rank.start", "rank.end",
                 "fetch.start", "fetch.end", "answer-delta", "answer" } }

\* messages of the step.* shape, as buildWorkflowSteps reads them
StepMessages ==
  { StepMessage(type, title) :
      type \in { "step.start", "step.end" },
      title \in { SEARCH_STEP_TITLE, RANK_STEP_TITLE } }
  \cup
  { ObjectData(type, Undefined) :
      type \in { "step.fetch.start", "step.fetch.end", "step.answer.start",
                 "step.answer.delta", "step.answer.end", "answer" } }

\* a turn with a message list of one protocol shape is handed to the view
InitSteps ==
  /\ InitHook
  /\ baseUrl = BaseUrlGood
  /\ props \in ListsUpTo(LegacyMessages, MaxMessages)
               \cup ListsUpTo(StepMessages, MaxMessages)
  /\ rendered = <<>>

\* the Turn component of app/turn.tsx renders the turn
RenderSteps_app ==
  /\ rendered = <<>>
  /\ rendered' = << [ by |-> "app", steps |-> buildWorkflowSteps_app(props) ] >>
  /\ UNCHANGED << hookVars, props >>

\* the Turn component of components/turn.tsx renders the turn
RenderSteps_components ==
  /\ rendered = <<>>
  /\ rendered' = << [ by |-> "components",
                      steps |-> buildWorkflowSteps_components(props) ] >>
  /\ UNCHANGED << hookVars, props >>

NextSteps == RenderSteps_app \/ RenderSteps_components

SpecSteps == InitSteps /\ [][NextSteps]_vars


(* ---------------------- the steps keyed by title ----------------------- *)

\* the longest message list handed to the title-keyed turn view
MaxTitledMessages == 4

\* step.* messages with their titles, and the final answer
TitledMessages ==
  { StepMessage(type, title) :
      type \in { "step.start", "step.status", "step.end" },
      title \in { SEARCH_STEP_TITLE, ANSWER_STEP_TITLE } }
  \cup
  { StepMessage(type, ANSWER_STEP_TITLE) :
      type \in { "step.answer.start", "step.answer.delta", "step.answer.end" } }
  \cup
  { StepMessage(type, SEARCH_STEP_TITLE) :
      type \in { "step.fetch.start", "step.fetch.end" } }
  \cup
  { ObjectData("answer", Undefined) }

\* a turn with a list of such messages is handed to the view
InitTitled ==
  /\ InitHook
  /\ baseUrl = BaseUrlGood
  /\ props \in ListsUpTo(TitledMessages, MaxTitledMessages)
  /\ rendered = <<>>

\* the Turn component of components/chat-form.tsx renders the turn
RenderSteps_chatform ==
  /\ rendered = <<>>
  /\ rendered' = << [ by |-> "chat-form", steps |-> buildWorkflowSteps_chatform(props) ] >>
  /\ UNCHANGED << hookVars, props >>

NextTitled ==
  \/ RenderSteps_chatform
  \/ RenderSteps_components

SpecTitled == InitTitled /\ [][NextTitled]_vars


(* ---------------------------- the page lists --------------------------- *)

\* the longest page list handed to the turn view
MaxPages == 5

\* the pages of a list: five with a URL of their own, one without URL, and
\* a second page of URL "a" that has a title
PageInputs ==
  { Page(url, NoText, NoText) : url \in { "", "a", "b", "c", "d", "e" } }
  \cup { Page("a", << " ", "A", " " >>, NoText) }

InitPages ==
  /\ InitHook
  /\ baseUrl = BaseUrlGood
  /\ props \in ListsUpTo(PageInputs, MaxPages)
  /\ rendered = <<>>

\* the answer section shows the references of the citations
RenderReferences ==
  /\ rendered = <<>>
  /\ rendered' = << [ by |-> "deriveReferencesFromPages",
                      references |-> deriveReferencesFromPages(props) ] >>
  /\ UNCHANGED << hookVars, props >>

\* the fetch step shows its pages, which it does when it has any
RenderPageList ==
  /\ rendered = <<>>
  /\ Len(props) > 0
  /\ rendered' = << [ by |-> "renderPageList", list |-> renderPageList(props) ] >>
  /\ UNCHANGED << hookVars, props >>

NextPages == RenderReferences \/ RenderPageList

SpecPages == InitPages /\ [][NextPages]_vars


(* ------------------------------ the answer ----------------------------- *)

\* a message as extractAnswer reads it: its type, its answer text and its
\* delta (a field the type does not have is never read and left empty)
ViewMessage(type, answer, delta) ==
  [ ObjectData(type, Undefined) EXCEPT !.answer = answer, !.delta = delta ]

\* the fragments and the final answers of a list
DeltaTexts == { << "Hel" >>, << "lo" >>, << " " >> }
AnswerTexts == { << "Hi" >>, << " ", "Yo" >> }

\* message lists of the first protocol shape
LegacyAnswerMessages ==
  { ViewMessage("answer-delta", NoText, delta) : delta \in DeltaTexts }
  \cup { ViewMessage("answer", answer, NoText) : answer \in AnswerTexts }
  \cup { ViewMessage("search.start", NoText, NoText) }

\* message lists of the step.* shape
StepAnswerMessages ==
  { ViewMessage("step.answer.delta", NoText, delta) : delta \in DeltaTexts }
  \cup { ViewMessage("answer", answer, NoText) : answer \in AnswerTexts }
  \cup { ViewMessage("step.start", NoText, NoText) }

InitAnswer ==
  /\ InitHook
  /\ baseUrl = BaseUrlGood
  /\ props \in ListsUpTo(LegacyAnswerMessages, MaxMessages)
               \cup ListsUpTo(StepAnswerMessages, MaxMessages)
  /\ rendered = <<>>

\* the Turn component of app/turn.tsx shows the answer of a turn of the
\* first shape
RenderAnswer_app ==
  /\ rendered = <<>>
  /\ props \in ListsUpTo(LegacyAnswerMessages, MaxMessages)
  /\ rendered' = << [ by |-> "extractAnswer", deltaType |-> "answer-delta",
                      content |-> extractAnswer(props).content ] >>
  /\ UNCHANGED << hookVars, props >>

\* the Turn component of components/chat-form.tsx shows the answer of a
\* turn of the step.* shape
RenderAnswer_components ==
  /\ rendered = <<>>
  /\ props \in ListsUpTo(StepAnswerMessages, MaxMessages)
  /\ rendered' = << [ by |-> "extractAnswer", deltaType |-> "step.answer.delta",
                      content |-> extractAnswer_components(props).content ] >>
  /\ UNCHANGED << hookVars, props >>

NextAnswer == RenderAnswer_app \/ RenderAnswer_components

SpecAnswer == InitAnswer /\ [][NextAnswer]_vars


(* ----------------------------- the markdown ---------------------------- *)

\* the most lines an answer has
MaxLines == 4

\* the lines of an answer: blank, white space only, a fence, two list
\* items (one indented), a heading of level two, a paragraph, a bare bullet
LineInputs ==
  { << >>, << " " >>, << "~~~" >>, << "-", " ", "a" >>,
    << " ", "*", " ", "b" >>, << "#", "#", " ", "T" >>, << "p" >>, << "-" >> }

\* content.split("\n") has at least one line
InitMarkdown ==
  /\ InitHook
  /\ baseUrl = BaseUrlGood
  /\ props \in ListsUpTo(LineInputs, MaxLines) \ { << >> }
  /\ rendered = <<>>

\* the answer section renders the content
RenderMarkdown ==
  /\ rendered = <<>>
  /\ rendered' = << [ by |-> "renderMarkdown", elements |-> renderMarkdown(props) ] >>
  /\ UNCHANGED << hookVars, props >>

NextMarkdown == RenderMarkdown

SpecMarkdown == InitMarkdown /\ [][NextMarkdown]_vars


(* ------------------------- derived vocabulary -------------------------- *)

Conns == 1..Len(conns)

\* connection c has been opened and not yet closed
IsOpen(c) == conns[c].readyState # "CLOSED"

OpenConns == { c \in Conns : IsOpen(c) }

\* a text that is empty or holds white space only
IsBlank(text) == \A i \in 1..Len(text) : IsWhiteSpace(text[i])

\* the refs and the connections, next to the state the hook returns
refState == << streamRef, cleanupRef, activeTurnIndexRef, conns >>

\* the step is a frame of a stream channel, pushed on connection c
IsStreamEventOf(op, c) ==
  op.op \in { "message", "end", "error" } /\ op.conn = c

(* -------------------------------- C1 ----------------------------------- *)

\* C1: in every reachable state at most one connection opened by the hook
\* is open (opened and not yet closed).
C1_AtMostOneOpenConnection == Cardinality(OpenConns) <= 1

\* a second connection is open after the first one was closed
C1_Witness ==
  /\ Len(conns) = 2
  /\ ~IsOpen(1)
  /\ IsOpen(2)

(* -------------------------------- C2 ----------------------------------- *)

\* C2: a sendMessage call made while a connection is open is a no-op: no
\* turn is appended, no connection is opened, and the transcript, status,
\* error, conversation identifier, the refs and the open connection with
\* its listeners are left as they were.
C2_SendWhileStreamingIsNoOp ==
  [][ (lastOp'.op = "sendMessage" /\ OpenConns # {})
        => UNCHANGED << hookState, refState >> ]_vars

\* a non-blank text was submitted after the open stream had delivered a
\* message, and the stream is still the only one and still open
C2_Witness ==
  /\ lastOp.op = "sendMessage"
  /\ ~IsBlank(lastOp.text)
  /\ baseUrl = BaseUrlGood
  /\ Len(conns) = 1
  /\ IsOpen(1)
  /\ status = "streaming"
  /\ Len(turns) = 1
  /\ turns[1].messages # <<>>

(* -------------------------------- C3 ----------------------------------- *)

\* C3: for every stream, the message list of the turn created for it equals
\* the sequence of valid StreamMessage events delivered on its message
\* channel, in arrival order.
C3_TurnEqualsDeliveredSequence ==
  \A c \in Conns : turns[conns[c].turnIndex + 1].messages = delivered[c]

(* -------------------------------- C4 ----------------------------------- *)

\* C4: every connection is closed exactly once whichever way it ends: close
\* is never called twice on a connection, and a connection whose stream has
\* ended (its cleanup ran, an end or error frame or an unparsable message
\* frame was handled, cancel or teardown took it, or the hook no longer
\* holds it) has been closed.
C4_ClosedExactlyOnce ==
  \A c \in Conns :
    /\ conns[c].closeCalls <= 1
    /\ ( \/ c \in cleanedUp
         \/ c # streamRef
         \/ lastOp.conn = c /\ lastOp.op \in { "end", "error", "cancel", "teardown" }
         \/ lastOp.conn = c /\ lastOp.op = "message" /\ lastOp.data = FrameNotJson )
       => conns[c].closeCalls = 1 /\ ~IsOpen(c)

\* an end frame arrives on a connection that cancel has already closed,
\* after a second connection ended as well
C4_Witness ==
  /\ Len(conns) = 2
  /\ lastOp.op = "end"
  /\ lastOp.conn = 1
  /\ conns[1].closeCalls = 1
  /\ conns[2].closeCalls = 1

(* -------------------------------- C5 ----------------------------------- *)

\* C5: an accepted sendMessage(text) (text not blank, no connection open,
\* a well-formed base URL configured) appends exactly one turn with the
\* question and an empty message list, sets status streaming, clears the
\* error, and opens exactly one connection whose query carries the question
\* and carries the stored conversation identifier iff one is stored.
C5_AcceptedSendMessage ==
  [][ (lastOp'.op = "sendMessage" /\ ~IsBlank(lastOp'.text)
       /\ OpenConns = {} /\ baseUrl = BaseUrlGood)
        => /\ turns' = Append(turns, [ question |-> trim(lastOp'.text),
                                       messages |-> <<>> ])
           /\ status' = "streaming"
           /\ error' = Null
           /\ Len(conns') = Len(conns) + 1
           /\ SubSeq(conns', 1, Len(conns)) = conns
           /\ conns'[Len(conns')].readyState = "OPEN"
           /\ conns'[Len(conns')].url.user_message = trim(lastOp'.text)
           /\ conns'[Len(conns')].url.conversation_id =
                IF conversationIdRef = Null THEN Undefined ELSE conversationIdRef
           /\ ~thrown' ]_vars

\* a question accepted after a failed stream that had recorded c1: the new
\* connection carries c1 and the error is cleared
C5_Witness ==
  /\ lastOp.op = "sendMessage"
  /\ Len(conns) = 2
  /\ conns[1].closeCalls = 1
  /\ IsOpen(2)
  /\ conns[2].url.conversation_id = "c1"
  /\ conns[2].url.user_message = <<"q">>
  /\ turns[2] = [ question |-> <<"q">>, messages |-> <<>> ]
  /\ status = "streaming"
  /\ error = Null

(* -------------------------------- C6 ----------------------------------- *)

\* C6: sendMessage with a blank text changes nothing in any state: no turn,
\* no connection, status and error as they were, also when the base URL is
\* not configured.
C6_BlankTextRejected ==
  [][ (lastOp'.op = "sendMessage" /\ IsBlank(lastOp'.text))
        => UNCHANGED << hookState, refState >> /\ ~thrown' ]_vars

\* a blank text submitted with no base URL configured: no error surfaced
C6_Witness ==
  /\ lastOp.op = "sendMessage"
  /\ IsBlank(lastOp.text)
  /\ lastOp.text # <<>>
  /\ baseUrl = BaseUrlUnset
  /\ error = Null

(* -------------------------------- C7 ----------------------------------- *)

\* C7: cancel with a connection open closes it, sets status ready and
\* leaves the error as it was; cancel with no connection open changes
\* nothing and does not throw.
C7_Cancel ==
  [][ lastOp'.op = "cancel"
        => /\ ~thrown'
           /\ OpenConns' = {}
           /\ \A c \in OpenConns :
                /\ conns'[c].closeCalls = conns[c].closeCalls + 1
                /\ status' = "ready"
                /\ error' = error
                /\ UNCHANGED << turns, conversationIdRef >>
           /\ OpenConns = {} => UNCHANGED << hookState, refState >> ]_vars

\* cancel was called after a stream had failed: the error status stays
C7_Witness ==
  /\ lastOp.op = "cancel"
  /\ lastOp.conn = NoStream
  /\ status = "error"
  /\ error = "Failed to parse stream message"
  /\ Len(conns) = 1

(* -------------------------------- C8 ----------------------------------- *)

\* C8: once a connection has been cleaned up, no message, end or error
\* frame of it changes the transcript, the status, the error, the stored
\* conversation identifier, the refs or any connection.
C8_NoEventAfterCleanup ==
  [][ \A c \in cleanedUp :
        IsStreamEventOf(lastOp', c) => UNCHANGED << hookState, refState >> ]_vars

\* a turn.start of the cancelled first connection arrives while the second
\* connection is open: the new turn stays empty, no identifier is recorded
C8_Witness ==
  /\ lastOp.op = "message"
  /\ lastOp.data = FrameTurnStartC1
  /\ lastOp.conn = 1
  /\ 1 \in cleanedUp
  /\ Len(conns) = 2
  /\ IsOpen(2)
  /\ status = "streaming"
  /\ turns[2].messages = <<>>
  /\ conversationIdRef = Null

(* -------------------------------- C9 ----------------------------------- *)

\* C9: a message frame that is not valid JSON, received on the open
\* connection while streaming, sets status error and a non-empty error
\* message and closes the connection exactly once; the transcript is kept.
C9_MalformedFrameIsFatal ==
  [][ \A c \in OpenConns :
        (lastOp'.op = "message" /\ lastOp'.conn = c
         /\ lastOp'.data = FrameNotJson /\ status = "streaming")
          => /\ status' = "error"
             /\ error' # Null /\ error' # ""
             /\ ~IsOpen(c)'
             /\ conns'[c].closeCalls = 1
             /\ turns' = turns
             /\ ~thrown' ]_vars

\* an unparsable frame arrived after a message had been appended
C9_Witness ==
  /\ lastOp.op = "message"
  /\ lastOp.data = FrameNotJson
  /\ lastOp.conn = 1
  /\ Len(conns) = 1
  /\ status = "error"
  /\ error = "Failed to parse stream message"
  /\ conns[1].closeCalls = 1
  /\ Len(turns[1].messages) = 1

(* -------------------------------- C10 ---------------------------------- *)

C11_EndSignal ==
  [][ \A c \in Conns :
        (lastOp'.op = "end" /\ lastOp'.conn = c
         /\ lastOp'.data \in { FrameDone, FrameBye })
          => /\ ~thrown'
             /\ (IsOpen(c) /\ status = "streaming")
                  => /\ status' = "ready"
                     /\ error' = error
                     /\ ~IsOpen(c)'
                     /\ conns'[c].closeCalls = 1
                     /\ conns'[c].listeners = {}
                     /\ UNCHANGED << turns, conversationIdRef >>
             /\ ~IsOpen(c)
                  => UNCHANGED << hookState, refState >> ]_vars

\* the end signal closed the stream of a turn that holds one message:
\* status ready, no error, one close
C11_Witness ==
  /\ lastOp.op = "end"
  /\ lastOp.data = FrameDone
  /\ lastOp.conn = 1
  /\ Len(conns) = 1
  /\ conns[1].closeCalls = 1
  /\ status = "ready"
  /\ error = Null
  /\ Len(turns[1].messages) = 1

(* -------------------------------- C12 ---------------------------------- *)

\* the error string an error event must surface: the payload's error field
\* when the data parses to an object with a non-empty error, the generic
\* message otherwise
ExpectedStreamError(data) ==
  IF data = FrameErrorBoom THEN "boom" ELSE "Streaming connection failed"

\* C12: an error event on the open connection while streaming sets status
\* error and closes the connection; the error string is the payload's error
\* field when the data parses to an object with a non-empty error, and the
\* generic connection-failed message in every other case.
C12_ErrorEvent ==
  [][ \A c \in OpenConns :
        (lastOp'.op = "error" /\ lastOp'.conn = c /\ status = "streaming")
          => /\ status' = "error"
             /\ error' = ExpectedStreamError(lastOp'.data)
             /\ ~IsOpen(c)'
             /\ conns'[c].closeCalls = 1
             /\ ~thrown' ]_vars

\* a structured error payload ended the stream: its message is surfaced
C12_Witness ==
  /\ lastOp.op = "error"
  /\ lastOp.data = FrameErrorBoom
  /\ lastOp.conn = 1
  /\ Len(conns) = 1
  /\ ~IsOpen(1)
  /\ status = "error"
  /\ error = "boom"

(* -------------------------------- C13 ---------------------------------- *)

\* C13: with no base URL configured, sendMessage with a text that is not
\* blank and no connection open opens no connection and sets the
\* configuration error; no turn is appended, status and the stored
\* conversation identifier stay as they were.
C13_MissingBaseUrl ==
  [][ (lastOp'.op = "sendMessage" /\ ~IsBlank(lastOp'.text)
       /\ OpenConns = {} /\ baseUrl = BaseUrlUnset)
        => /\ error' = "Chat service URL is not configured"
           /\ UNCHANGED << turns, status, conversationIdRef, refState >>
           /\ ~thrown' ]_vars

\* a question was submitted with no base URL: the error is shown, the
\* transcript is empty
C13_Witness ==
  /\ lastOp.op = "sendMessage"
  /\ ~IsBlank(lastOp.text)
  /\ baseUrl = BaseUrlUnset
  /\ error = "Chat service URL is not configured"
  /\ status = "ready"
  /\ turns = <<>>
  /\ conns = <<>>


(* -------------------------------- C14 ---------------------------------- *)

\* the conversation identifiers of the turn.start messages the server has
\* delivered on the connections before connection c
ReceivedBefore(c) ==
  UNION { { delivered[d][i].conversation_id :
              i \in { j \in 1..Len(delivered[d]) :
                        delivered[d][j].type = "turn.start" } } :
          d \in 1..(c - 1) }

\* C14: every conversation_id a request carries is the conversation_id of a
\* turn.start message received on an earlier connection, and a request
\* made before any turn.start was received carries none.
C14_IdentifierNeverInvented ==
  \A c \in Conns :
    conns[c].url.conversation_id # Undefined
      => conns[c].url.conversation_id \in ReceivedBefore(c)

\* the first stream received c1 and then c2; the second request carries c2
C14_Witness ==
  /\ Len(conns) = 2
  /\ Len(delivered[1]) = 2
  /\ delivered[1][1].conversation_id = "c1"
  /\ delivered[1][2].conversation_id = "c2"
  /\ conns[2].url.conversation_id = "c2"

(* -------------------------------- C15 ---------------------------------- *)

\* C15: no exception escapes sendMessage, cancel or an event handler, and
\* the session never stays in status streaming without an open connection;
\* a failed stream leaves status error with a non-empty error string.
C15_ErrorsHandledInside ==
  /\ ~thrown
  /\ status = "streaming" => OpenConns # {}
  /\ status = "error" => error # Null /\ error # ""

(* -------------------------------- C16 ---------------------------------- *)

\* the step is a sendMessage that passes its guards and whose EventSource
\* can be constructed
OpensConnection(op) ==
  /\ op.op = "sendMessage"
  /\ ~IsBlank(op.text)
  /\ OpenConns = {}
  /\ baseUrl = BaseUrlGood

\* C16: a connection is opened by an accepted sendMessage and by nothing
\* else: every accepted sendMessage opens exactly one, no other step opens
\* any (none after a failed stream until the next accepted sendMessage), so
\* the connections opened are as many as the sendMessage calls accepted.
C16_NeverRetries ==
  [][ /\ OpensConnection(lastOp') => Len(conns') = Len(conns) + 1
      /\ ~OpensConnection(lastOp') => Len(conns') = Len(conns)
      /\ baseUrl = BaseUrlGood => Len(conns') = Len(turns') ]_vars

\* a transport failure ended the second stream: two questions, two
\* connections, none open
C16_Witness ==
  /\ lastOp.op = "error"
  /\ lastOp.data = Undefined
  /\ lastOp.conn = 2
  /\ status = "error"
  /\ Len(turns) = 2
  /\ Len(conns) = 2
  /\ OpenConns = {}

(* -------------------------------- C17 ---------------------------------- *)

\* C17: a connection goes from open (streaming) to closed (ready or error)
\* and nothing else: a closed connection is never open again and never held
\* by the hook again, a connection is closed as soon as its cleanup ran, a
\* new connection object comes only from sendMessage; status leaves
\* streaming only on a message, end or error event of the connection the
\* hook holds or on cancel or teardown, and enters it only by sendMessage.
C17_ConnectionStateMachine ==
  [][ /\ \A c \in Conns :
           ~IsOpen(c) => /\ conns'[c].readyState = "CLOSED"
                         /\ conns'[c].listeners = {}
                         /\ streamRef' # c
                         /\ cleanupRef' # c
      /\ \A c \in Conns : conns'[c].url = conns[c].url
      /\ \A c \in 1..Len(conns') :
           c \in cleanedUp' => conns'[c].readyState = "CLOSED"
      /\ Len(conns') # Len(conns) =>
           /\ lastOp'.op = "sendMessage"
           /\ Len(conns') = Len(conns) + 1
           /\ streamRef' = Len(conns')
           /\ conns'[Len(conns')].readyState = "OPEN"
      /\ (status = "streaming" /\ status' # "streaming") =>
           /\ streamRef # NoStream
           /\ IsOpen(streamRef)
           /\ \/ IsStreamEventOf(lastOp', streamRef)
              \/ lastOp'.op \in { "cancel", "teardown" }
           /\ status' \in { "ready", "error" }
           /\ conns'[streamRef].readyState = "CLOSED"
      /\ (status # "streaming" /\ status' = "streaming") =>
           lastOp'.op = "sendMessage" ]_vars

\* the first connection was cleaned up; a late frame pushed on it leaves it
\* closed while the next question streams on a new connection object
C17_Witness ==
  /\ Len(conns) = 2
  /\ 1 \in cleanedUp
  /\ conns[1].readyState = "CLOSED"
  /\ conns[1].closeCalls = 1
  /\ IsOpen(2)
  /\ streamRef = 2
  /\ status = "streaming"
  /\ lastOp.op = "message"
  /\ lastOp.conn = 1

(* -------------------------------- C18 ---------------------------------- *)

\* the stream of turn i is open
TurnStreams(i) == \E c \in OpenConns : conns[c].turnIndex = i - 1

\* C18: the transcript is append-only: the list of turns never shrinks or
\* reorders, a question never changes, a sendMessage that passes its guards
\* appends the turn at once with no message yet, a turn's messages only grow
\* at the end, and they change only on a message event of that turn's open
\* stream, so never after that stream has ended.
C18_AppendOnlyTranscript ==
  [][ /\ Len(turns') >= Len(turns)
      /\ \A i \in 1..Len(turns) :
           /\ turns'[i].question = turns[i].question
           /\ Len(turns'[i].messages) >= Len(turns[i].messages)
           /\ SubSeq(turns'[i].messages, 1, Len(turns[i].messages))
                = turns[i].messages
           /\ turns'[i].messages # turns[i].messages =>
                /\ TurnStreams(i)
                /\ lastOp'.op = "message"
                /\ lastOp'.conn \in OpenConns
                /\ conns[lastOp'.conn].turnIndex = i - 1
                /\ Len(turns'[i].messages) = Len(turns[i].messages) + 1
      /\ Len(turns') # Len(turns) =>
           /\ lastOp'.op = "sendMessage"
           /\ Len(turns') = Len(turns) + 1
           /\ turns'[Len(turns')].question = trim(lastOp'.text)
           /\ turns'[Len(turns')].messages = << >>
      /\ (lastOp'.op = "sendMessage" /\ Accepts(lastOp'.text)) =>
           Len(turns') = Len(turns) + 1 ]_vars

\* the first turn kept its message after its stream ended, while the second
\* turn receives one
C18_Witness ==
  /\ Len(turns) = 2
  /\ Len(turns[1].messages) = 1
  /\ Len(turns[2].messages) = 1
  /\ ~TurnStreams(1)
  /\ TurnStreams(2)
  /\ lastOp.op = "message"
  /\ lastOp.conn = 2

(* -------------------------------- C19 ---------------------------------- *)

\* C19: teardown acts as cancel does: with a connection open it closes that
\* connection exactly once, removes its listeners, releases the refs and
\* sets status ready, leaving error and turns alone; with none open it
\* changes nothing; after teardown no connection is open.
C19_TeardownIsCancel ==
  [][ /\ lastOp'.op = "teardown" =>
           /\ \A c \in OpenConns :
                /\ conns'[c].readyState = "CLOSED"
                /\ conns'[c].listeners = {}
                /\ conns'[c].closeCalls = 1
                /\ c \in cleanedUp'
           /\ OpenConns # {} =>
                /\ status' = "ready"
                /\ streamRef' = NoStream
                /\ cleanupRef' = NoStream
                /\ activeTurnIndexRef' = NullIndex
                /\ UNCHANGED << turns, error, conversationIdRef >>
           /\ OpenConns = {} => UNCHANGED << hookState, refState, cleanedUp >>
           /\ ~thrown'
      /\ ~mounted' =>
           \A c \in 1..Len(conns') : conns'[c].readyState = "CLOSED" ]_vars

\* the component unmounted while the second question was streaming
C19_Witness ==
  /\ lastOp.op = "teardown"
  /\ lastOp.conn = 2
  /\ ~mounted
  /\ status = "ready"
  /\ conns[2].readyState = "CLOSED"
  /\ conns[2].closeCalls = 1
  /\ conns[2].listeners = {}
  /\ Len(turns[2].messages) = 1

(* -------------------------------- C20 ---------------------------------- *)

\* the messages of the conversation, in the order the server sent them
Scenario ==
  << JSONparse(FrameTurnStartC1).data, JSONparse(FrameSearchStart).data,
     JSONparse(FrameSearchEnd).data, JSONparse(FrameAnswer).data >>

\* the first stream received the conversation and then the end signal
ScenarioDone ==
  /\ Len(conns) >= 1
  /\ delivered[1] = Scenario
  /\ 1 \in cleanedUp

\* C20: after turn.start c1, search.start, search.end, the answer
\* "It is sunny." and the end signal, the status is ready with no error, the
\* turn renders the answer text "It is sunny.", and the next accepted
\* sendMessage sends conversation_id "c1".
C20_EndToEnd ==
  ScenarioDone =>
    /\ conns[1].readyState = "CLOSED"
    /\ Len(conns) = 1 => status = "ready" /\ error = Null
    /\ extractAnswer(turns[1].messages).content = << "It is sunny." >>
    /\ conversationIdRef = "c1"
    /\ Len(conns) >= 2 => conns[2].url.conversation_id = "c1"

\* the conversation ended and the next question was accepted
C20_Witness ==
  /\ ScenarioDone
  /\ lastOp.op = "sendMessage"
  /\ Len(conns) = 2
  /\ IsOpen(2)
  /\ conns[2].url.conversation_id = "c1"
  /\ extractAnswer(turns[1].messages).content = << "It is sunny." >>

(* -------------------------------- C21 ---------------------------------- *)

\* the step.* discriminants the type guard lists
StepMessageTypes ==
  { "step.start", "step.status", "step.end", "step.fetch.start",
    "step.fetch.end", "step.answer.start", "step.answer.delta",
    "step.answer.end" }

\* a frame of the message channel that carries a well-formed message of
\* either protocol shape
IsKnownVariantFrame(data) ==
  LET parsed == JSONparse(data)
  IN  /\ parsed.ok /\ ~parsed.null /\ parsed.event = "message"
      /\ parsed.data.kind = "object"
      /\ \/ IsValidStreamMessage(parsed.data)
         \/ parsed.data.type \in StepMessageTypes

\* C21: a well-formed message of either protocol shape (turn.start,
\* search.*, rank.*, fetch.*, answer-delta, answer, or a step.* variant)
\* that arrives on the open stream is appended to the open turn.
C21_BothShapesAccepted ==
  [][ \A c \in OpenConns :
        (lastOp'.op = "message" /\ lastOp'.conn = c
         /\ IsKnownVariantFrame(lastOp'.data) /\ status = "streaming")
          => turns'[conns[c].turnIndex + 1].messages
               = Append(turns[conns[c].turnIndex + 1].messages,
                        JSONparse(lastOp'.data).data) ]_vars

(* -------------------------------- C22 ---------------------------------- *)

\* C22 as stated: the question of the turn an accepted sendMessage(text)
\* appends is the text as submitted, leading and trailing white space
\* included.
C22_QuestionIsLiteralText ==
  [][ (lastOp'.op = "sendMessage" /\ Accepts(lastOp'.text))
        => /\ Len(turns') = Len(turns) + 1
           /\ turns'[Len(turns')].question = lastOp'.text ]_vars

\* C22 as amended: the question of the turn an accepted sendMessage(text)
\* appends is the submitted text with its leading and trailing white space
\* removed; it is not empty and neither starts nor ends with white space.
C22_QuestionIsTrimmedText ==
  [][ (lastOp'.op = "sendMessage" /\ Accepts(lastOp'.text))
        => /\ Len(turns') = Len(turns) + 1
           /\ LET question == turns'[Len(turns')].question
              IN  /\ question = trim(lastOp'.text)
                  /\ question # <<>>
                  /\ ~IsWhiteSpace(question[1])
                  /\ ~IsWhiteSpace(question[Len(question)]) ]_vars

\* the text " q " was accepted as the first question and stored as "q"
C22_Witness ==
  /\ lastOp.op = "sendMessage"
  /\ lastOp.text = << " ", "q", " " >>
  /\ Len(turns) = 1
  /\ turns[1].question = << "q" >>
  /\ turns[1].question # lastOp.text

(* -------------------------------- C23 ---------------------------------- *)

\* the message is an event of the category of the step with this title
IsEventOfStep(message, title) ==
  CASE title = "Search" -> message.type \in { "search.start", "search.end" }
    [] title = "Rank" -> message.type \in { "rank.start", "rank.end" }
    [] title = "Fetch" -> message.type \in { "fetch.start", "fetch.end" }
    [] title = "Answer" -> message.type \in { "answer-delta", "answer" }
    [] title = FETCH_STEP_TITLE ->
         message.type \in { "step.fetch.start", "step.fetch.end" }
    [] title = ANSWER_STEP_TITLE ->
         message.type \in { "step.answer.start", "step.answer.delta",
                            "step.answer.end", "answer" }
    [] OTHER -> message.type \in { "step.start", "step.end" }
                /\ message.title = title

\* the message signals completion of the step with this title
IsCompletionOfStep(message, title) ==
  /\ IsEventOfStep(message, title)
  /\ message.type \in { "search.end", "rank.end", "fetch.end", "answer",
                        "step.end", "step.fetch.end", "step.answer.end" }

\* the status the rule gives the step with this title
RuledStatus(messages, title) ==
  IF \E i \in 1..Len(messages) : IsCompletionOfStep(messages[i], title)
  THEN "complete"
  ELSE IF \E i \in 1..Len(messages) : IsEventOfStep(messages[i], title)
       THEN "active"
       ELSE "pending"

\* C23: every step buildWorkflowSteps derives is pending when the list has
\* no event of its category, complete when it has at least one completion
\* event of its category (whatever starts are unmatched), active otherwise.
C23_StepStatusRule ==
  rendered # <<>> =>
    \A i \in 1..Len(rendered[1].steps) :
      rendered[1].steps[i].status = RuledStatus(props, rendered[1].steps[i].title)

(* -------------------------------- C24 ---------------------------------- *)

\* the positions of the pages that are the first of their URL
FirstOfUrl(pages) ==
  { i \in 1..Len(pages) :
      /\ ~HasNoUrl(pages[i])
      /\ \A j \in 1..(i - 1) : pages[j].url # pages[i].url }

\* the items of a list at the positions of a set, from position k on, in
\* the order of the list
RECURSIVE ItemsAt(_, _, _)
ItemsAt(list, positions, k) ==
  IF k > Len(list)
  THEN <<>>
  ELSE (IF k \in positions THEN << list[k] >> ELSE <<>>)
         \o ItemsAt(list, positions, k + 1)

\* the first page of every URL, in the order of the list
DistinctPages(pages) == ItemsAt(pages, FirstOfUrl(pages), 1)

\* C24: deriveReferencesFromPages returns one reference per distinct URL,
\* made from the first page of that URL, in the order of the input,
\* however many there are (a page without URL gives no reference).
C24_ReferencesDeduplicated ==
  (rendered # <<>> /\ rendered[1].by = "deriveReferencesFromPages") =>
    LET references == rendered[1].references
        expected == DistinctPages(props)
    IN  /\ Len(references) = Len(expected)
        /\ \A n \in 1..Len(references) :
             /\ references[n].href = expected[n].url
             /\ references[n].title
                  = TrimmedOr(expected[n].title, << expected[n].url >>)
        /\ \A n, k \in 1..Len(references) :
             references[n].href = references[k].href => n = k

\* the pages a, b, a give the references a, b, the first a winning over
\* the titled one
C24_Witness ==
  /\ rendered # <<>>
  /\ rendered[1].by = "deriveReferencesFromPages"
  /\ props = << Page("a", NoText, NoText), Page("b", NoText, NoText),
                Page("a", << " ", "A", " " >>, NoText) >>
  /\ Len(rendered[1].references) = 2
  /\ rendered[1].references[1].href = "a"
  /\ rendered[1].references[1].title = << "a" >>
  /\ rendered[1].references[2].href = "b"

(* -------------------------------- C25 ---------------------------------- *)

\* C25: the inline preview shows the first min(4, distinct non-empty URLs)
\* pages, one per URL (the first page of it), in the order of the input:
\* never more than 4 items and never a URL twice.
C25_PreviewCapped ==
  (rendered # <<>> /\ rendered[1].by = "renderPageList") =>
    LET items == rendered[1].list.items
        expected == DistinctPages(props)
    IN  /\ Len(items) = IF Len(expected) < 4 THEN Len(expected) ELSE 4
        /\ Len(items) <= 4
        /\ \A n \in 1..Len(items) :
             /\ items[n].key = expected[n].url
             /\ items[n].title
                  = TrimmedOr(expected[n].title, << expected[n].url >>)
        /\ \A n, k \in 1..Len(items) : items[n].key = items[k].key => n = k

\* five pages of five URLs: the preview shows the first four
C25_Witness ==
  /\ rendered # <<>>
  /\ rendered[1].by = "renderPageList"
  /\ Len(props) = 5
  /\ Len(DistinctPages(props)) = 5
  /\ Len(rendered[1].list.items) = 4
  /\ rendered[1].list.items[4].key = props[4].url

(* -------------------------------- C26 ---------------------------------- *)

\* the positions of the messages of a type
PositionsOfType(messages, type) ==
  { i \in 1..Len(messages) : messages[i].type = type }

\* the fragments of the deltas of a list, one after the other
RECURSIVE DeltasFrom(_, _, _)
DeltasFrom(messages, type, k) ==
  IF k > Len(messages)
  THEN <<>>
  ELSE (IF messages[k].type = type THEN messages[k].delta ELSE <<>>)
         \o DeltasFrom(messages, type, k + 1)

\* the text the answer is resolved from: that of the last answer message
\* if there is one, else the fragments in arrival order
ResolvedAnswer(messages, deltaType) ==
  LET answers == PositionsOfType(messages, "answer")
  IN  IF answers # {}
      THEN messages[CHOOSE i \in answers : \A j \in answers : j <= i].answer
      ELSE DeltasFrom(messages, deltaType, 1)

\* C26 as stated: the content shown is the concatenation of the delta
\* fragments in arrival order when the list has no final answer message,
\* and the answer text of the final answer message when it has one.
C26_AnswerIsConcatenation ==
  rendered # <<>> =>
    rendered[1].content = ResolvedAnswer(props, rendered[1].deltaType)

\* C26 as amended: the content shown is, with leading and trailing white
\* space removed, the concatenation of the delta fragments in arrival order
\* when the list has no final answer message, and the answer text of the
\* latest answer message when it has one, whatever deltas surround it.
C26_AnswerIsTrimmedResolution ==
  rendered # <<>> =>
    rendered[1].content = trim(ResolvedAnswer(props, rendered[1].deltaType))

\* the deltas "Hel", "lo" and then the answer "Hi": the content is "Hi"
C26_Witness ==
  /\ rendered # <<>>
  /\ Len(props) = 3
  /\ props[1].type = "answer-delta" /\ props[1].delta = << "Hel" >>
  /\ props[2].type = "answer-delta" /\ props[2].delta = << "lo" >>
  /\ props[3].type = "answer" /\ props[3].answer = << "Hi" >>
  /\ rendered[1].content = << "Hi" >>
  /\ extractAnswer(SubSeq(props, 1, 2)).content = << "Hel", "lo" >>

(* -------------------------------- C27 ---------------------------------- *)

\* the fence lines before position i
FencesBefore(lines, i) ==
  Cardinality({ j \in 1..(i - 1) : IsFenceLine(lines[j]) })

\* what the line at position i is: a fence, a line of a code block (after
\* an odd number of fences), or outside a code block a blank line, a list
\* item, a heading or a paragraph
LineKind(lines, i) ==
  IF IsFenceLine(lines[i]) THEN "fence"
  ELSE IF FencesBefore(lines, i) % 2 = 1 THEN "code"
  ELSE IF IsBlank(lines[i]) THEN "blank"
  ELSE IF IsListItemLine(lines[i]) THEN "item"
  ELSE IF IsHeadingLine(lines[i]) THEN "heading"
  ELSE "paragraph"

\* the tag of the block a line of a kind goes to
TagOfKind(kind) ==
  CASE kind = "code" -> "pre"
    [] kind = "item" -> "ul"
    [] kind = "heading" -> "h"
    [] kind = "paragraph" -> "p"
    [] OTHER -> "none"

\* the places (block, position in the block) where line i went
PlacesOf(blocks, i) ==
  { bk \in UNION { { << b, k >> : k \in 1..Len(blocks[b].from) } :
                   b \in 1..Len(blocks) } :
      blocks[bk[1]].from[bk[2]] = i }

\* C27: every line that is neither a fence nor a blank line outside a code
\* block ends up in exactly one block, of the tag of its kind, and fences
\* and those blank lines in none; a list block is a maximal run of
\* consecutive list-item lines; a code block holds verbatim the consecutive
\* lines after its opening fence, whatever they look like, and every
\* opening fence gives one code block, closed or not; the blocks are in
\* input order.
C27_MarkdownBlocks ==
  rendered # <<>> =>
    LET blocks == rendered[1].elements
        lines == props
    IN  /\ \A i \in 1..Len(lines) :
             LET kind == LineKind(lines, i)
             IN  IF kind \in { "fence", "blank" }
                 THEN PlacesOf(blocks, i) = {}
                 ELSE /\ Cardinality(PlacesOf(blocks, i)) = 1
                      /\ \A bk \in PlacesOf(blocks, i) :
                           blocks[bk[1]].tag = TagOfKind(kind)
        /\ \A b \in 1..Len(blocks) :
             LET from == blocks[b].from
             IN  /\ Len(blocks[b].texts) = Len(from)
                 /\ \A k \in 1..(Len(from) - 1) : from[k + 1] = from[k] + 1
                 /\ blocks[b].tag \in { "ul", "pre", "h", "p" }
                 /\ blocks[b].tag = "ul" =>
                      /\ Len(from) >= 1
                      /\ from[1] > 1 => LineKind(lines, from[1] - 1) # "item"
                      /\ from[Len(from)] < Len(lines) =>
                           LineKind(lines, from[Len(from)] + 1) # "item"
                 /\ blocks[b].tag = "pre" =>
                      /\ \A k \in 1..Len(from) : blocks[b].texts[k] = lines[from[k]]
                      /\ Len(from) >= 1 =>
                           /\ LineKind(lines, from[1] - 1) = "fence"
                           /\ from[Len(from)] < Len(lines) =>
                                LineKind(lines, from[Len(from)] + 1) = "fence"
                 /\ blocks[b].tag \in { "h", "p" } => Len(from) = 1
                 /\ blocks[b].tag = "p" => blocks[b].texts[1] = lines[from[1]]
                 /\ blocks[b].tag = "h" =>
                      blocks[b].level = LeadingHashes(trim(lines[from[1]]))
        /\ Cardinality({ b \in 1..Len(blocks) : blocks[b].tag = "pre" })
             = (FencesBefore(lines, Len(lines) + 1) + 1) \div 2
        /\ \A b1, b2 \in 1..Len(blocks) :
             \A k1 \in 1..Len(blocks[b1].from), k2 \in 1..Len(blocks[b2].from) :
               b1 < b2 => blocks[b1].from[k1] < blocks[b2].from[k2]

\* a list item, a fence, then a line that looks like a list item and a
\* paragraph line, no closing fence: one list block and one code block of
\* the two lines
C27_Witness ==
  /\ rendered # <<>>
  /\ props = << << "-", " ", "a" >>, << "~~~" >>, << " ", "*", " ", "b" >>,
                << "p" >> >>
  /\ Len(rendered[1].elements) = 2
  /\ rendered[1].elements[1].tag = "ul"
  /\ rendered[1].elements[1].texts = << << "a" >> >>
  /\ rendered[1].elements[2].tag = "pre"
  /\ rendered[1].elements[2].texts = << << " ", "*", " ", "b" >>, << "p" >> >>

(* -------------------------------- C28 ---------------------------------- *)

\* C28: if an end or error event, a cancel or a teardown eventually comes
\* for every open stream, every connection opened is eventually closed,
\* with status ready or error at that moment; and status leaves streaming
\* on such a step or on a message event only, the hook having no timer.
C28_StreamEventuallyEnds ==
  /\ \A c \in 1..MaxTurns :
       (c \in Conns /\ IsOpen(c) /\ status = "streaming")
         ~> (c \in Conns /\ ~IsOpen(c) /\ c \in cleanedUp
             /\ (lastOp.conn = c => status \in { "ready", "error" }))
  /\ [][ (status = "streaming" /\ status' # "streaming")
           => lastOp'.op \in { "message", "end", "error", "cancel", "teardown" }
       ]_vars

\* both streams of a session have ended, the second one by cancel after
\* the first one failed
C28_Witness ==
  /\ Len(conns) = 2
  /\ cleanedUp = { 1, 2 }
  /\ OpenConns = {}
  /\ lastOp.op = "cancel"
  /\ lastOp.conn = 2
  /\ status = "ready"
  /\ error = Null
  /\ conns[1].closeCalls = 1
  /\ frames >= 1

(* -------------------------------- C29 ---------------------------------- *)

\* C29: whenever no connection is open and a base URL the browser accepts
\* is configured, the hook holds no stream and status is ready or error,
\* so a sendMessage with non-blank text is accepted: it appends a turn,
\* opens a new connection which the hook holds, sets status streaming and
\* clears the error.
C29_ResubmitRecovers ==
  [][ (OpenConns = {} /\ baseUrl = BaseUrlGood)
        => /\ streamRef = NoStream
           /\ cleanupRef = NoStream
           /\ status \in { "ready", "error" }
           /\ (lastOp'.op = "sendMessage" /\ ~IsBlank(lastOp'.text))
                => /\ Len(turns') = Len(turns) + 1
                   /\ Len(conns') = Len(conns) + 1
                   /\ conns'[Len(conns')].readyState = "OPEN"
                   /\ streamRef' = Len(conns')
                   /\ cleanupRef' = Len(conns')
                   /\ status' = "streaming"
                   /\ error' = Null ]_vars

\* the first stream failed before any message; the question submitted
\* again opened a second connection and cleared the error
C29_Witness ==
  /\ lastOp.op = "sendMessage"
  /\ Len(conns) = 2
  /\ frames = 1
  /\ delivered[1] = <<>>
  /\ conversationIdRef = Null
  /\ turns[1].messages = <<>>
  /\ conns[1].readyState = "CLOSED"
  /\ streamRef = 2
  /\ IsOpen(2)
  /\ status = "streaming"
  /\ error = Null

(* -------------------------------- C30 ---------------------------------- *)

\* C30: in every reachable state status is streaming exactly when the hook
\* holds an open connection; streamRef and cleanupRef name the same
\* connection, and no connection is open that the hook does not hold.
C30_StreamingIffOpenConnection ==
  /\ status = "streaming" <=> (streamRef # NoStream /\ IsOpen(streamRef))
  /\ streamRef = cleanupRef
  /\ OpenConns \subseteq { streamRef }

(* -------------------------------- C31 ---------------------------------- *)

\* the error sendMessage records when no base URL is configured
ConfigurationError == "Chat service URL is not configured"

\* how status and error go together in one state of the hook
StatusMatchesError ==
  /\ status = "streaming" => error = Null
  /\ status = "error" => error # Null /\ error # ""
  /\ (status = "ready" /\ error # Null)
       => error = ConfigurationError /\ ~Truthy(baseUrl)

\* C31: in every reachable state, status streaming implies a null error and
\* status error implies a non-empty error string; an error with status
\* ready is the configuration error, and only a sendMessage call puts it
\* there.
C31_StatusAndError ==
  [][ /\ StatusMatchesError
      /\ StatusMatchesError'
      /\ (status' = "ready" /\ error' # Null /\ error = Null)
           => lastOp'.op = "sendMessage" ]_vars

\* a stream failed after its first message with the server's error text,
\* and the question sent again cleared the error while streaming
C31_Witness ==
  /\ status = "streaming"
  /\ error = Null
  /\ lastOp.op = "sendMessage"
  /\ Len(conns) = 2
  /\ frames = 2
  /\ Len(delivered[1]) = 1
  /\ conns[1].readyState = "CLOSED"
  /\ IsOpen(2)

(* -------------------------------- C32 ---------------------------------- *)

\* a frame of the message channel whose payload the type guard accepts
IsAcceptedFrame(data) ==
  LET parsed == JSONparse(data)
  IN  /\ parsed.ok /\ ~parsed.null /\ parsed.event = "message"
      /\ parsed.data.kind = "object"
      /\ isStreamMessage(parsed.data)

IsAcceptedTurnStart(op, c) ==
  /\ op.op = "message" /\ op.conn = c
  /\ IsAcceptedFrame(op.data)
  /\ JSONparse(op.data).data.type = "turn.start"

\* C33: the stored conversation identifier is the conversation_id of the
\* most recently accepted turn.start message of the session: an accepted
\* turn.start stores its conversation_id and no other step (end, error,
\* cancel, teardown, a rejected or accepted sendMessage, any other frame)
\* changes the stored value; once set it is never null again.
C33_IdentifierFollowsTurnStart ==
  [][ /\ \A c \in OpenConns :
           IsAcceptedTurnStart(lastOp', c)
             => conversationIdRef' = JSONparse(lastOp'.data).data.conversation_id
      /\ (~\E c \in OpenConns : IsAcceptedTurnStart(lastOp', c))
           => conversationIdRef' = conversationIdRef
      /\ conversationIdRef # Null => conversationIdRef' # Null ]_vars

(* -------------------------------- C34 ---------------------------------- *)

\* a frame of the message channel that parses as JSON but is null, is not
\* an envelope with event "message", or has no data payload
IsStrayFrame(data) ==
  LET parsed == JSONparse(data)
  IN  /\ parsed.ok
      /\ \/ parsed.null
         \/ parsed.event # "message"
         \/ parsed.data.kind = "undefined"

\* C34: a message-channel frame that parses as JSON but is null, is not an
\* envelope with event "message", or has no data payload, received on the
\* open connection while streaming, changes nothing: the transcript, the
\* status, the error, the conversation identifier and the refs are as they
\* were, and the connection stays open with its listeners.
C34_StrayFrameIsIgnored ==
  [][ \A c \in OpenConns :
        (lastOp'.op = "message" /\ lastOp'.conn = c
         /\ IsStrayFrame(lastOp'.data) /\ status = "streaming")
          => /\ hookState' = hookState
             /\ refState' = refState
             /\ status' = "streaming"
             /\ IsOpen(c)'
             /\ ~thrown' ]_vars

\* a null frame arrived after a step message on the open stream, which
\* goes on streaming with that message in its turn
C34_Witness ==
  /\ lastOp.op = "message"
  /\ IsStrayFrame(lastOp.data)
  /\ lastOp.data = FrameNull
  /\ IsOpen(lastOp.conn)
  /\ status = "streaming"
  /\ error = Null
  /\ Len(turns[Len(turns)].messages) = 1

(* -------------------------------- C35 ---------------------------------- *)

\* the payload of an end event parses and is not null, so that its message
\* property can be read
EndPayloadReadable(data) == JSONparse(data).ok /\ ~JSONparse(data).null

\* C35: an end event on the open connection while streaming gives status
\* ready only when its payload parses and can be read as an object; when
\* the payload is not valid JSON or parses to null it sets the error
\* "Failed to parse stream end payload", closes the connection once and
\* sets status error, not ready.
C35_EndPayload ==
  [][ \A c \in OpenConns :
        (lastOp'.op = "end" /\ lastOp'.conn = c /\ status = "streaming")
          => /\ status' = "ready" => EndPayloadReadable(lastOp'.data)
             /\ ~EndPayloadReadable(lastOp'.data)
                  => /\ error' = "Failed to parse stream end payload"
                     /\ status' = "error"
                     /\ conns'[c].readyState = "CLOSED"
                     /\ conns'[c].closeCalls = conns[c].closeCalls + 1
                     /\ turns' = turns ]_vars

\* the end event of a stream that had delivered a message carried the
\* payload null: the stream is closed once, with the parse error
C35_Witness ==
  /\ lastOp.op = "end"
  /\ lastOp.data = FrameNull
  /\ conns[lastOp.conn].readyState = "CLOSED"
  /\ conns[lastOp.conn].closeCalls = 1
  /\ status = "error"
  /\ error = "Failed to parse stream end payload"
  /\ Len(turns[conns[lastOp.conn].turnIndex + 1].messages) = 1

(* -------------------------------- C36 ---------------------------------- *)

\* the messages of the turn that connection c streams into
TurnMessagesOf(c) == turns[conns[c].turnIndex + 1].messages

\* the turn of connection c has received an answer message
HasAnswer(c) ==
  \E i \in 1..Len(TurnMessagesOf(c)) : TurnMessagesOf(c)[i].type = "answer"

\* C36: the answer message does not end the stream: an open connection
\* whose turn holds an answer message has status streaming, and every
\* message the type guard knows that arrives on it, the answer itself
\* included, is appended to that same turn and leaves the connection open
\* and the status streaming; so it goes on until an end event, an error
\* event, cancel or teardown.
C36_AnswerDoesNotEndStream ==
  [][ \A c \in OpenConns :
        /\ HasAnswer(c) => status = "streaming" /\ streamRef = c
        /\ (lastOp'.op = "message" /\ lastOp'.conn = c
            /\ IsAcceptedFrame(lastOp'.data)
            /\ (HasAnswer(c) \/ JSONparse(lastOp'.data).data.type = "answer"))
             => /\ TurnMessagesOf(c)'
                  = Append(TurnMessagesOf(c), JSONparse(lastOp'.data).data)
                /\ IsOpen(c)'
                /\ status' = "streaming"
                /\ error' = Null ]_vars

\* a step message arrived after the answer on the open stream and stands
\* behind it in the turn
C36_Witness ==
  \E c \in OpenConns :
    /\ lastOp.op = "message" /\ lastOp.conn = c
    /\ Len(TurnMessagesOf(c)) = 2
    /\ TurnMessagesOf(c)[1].type = "answer"
    /\ TurnMessagesOf(c)[2].type = "step.start"
    /\ status = "streaming"

(* -------------------------------- C37 ---------------------------------- *)

\* pending, then active, then complete
StatusRank(stepStatus) ==
  CASE stepStatus = "pending" -> 0
    [] stepStatus = "active" -> 1
    [] stepStatus = "complete" -> 2

\* the steps derived before are found again at their positions, none with
\* a status behind the one it had
StepsGrow(before, after) ==
  /\ Len(before) <= Len(after)
  /\ \A index \in 1..Len(before) :
       /\ after[index].title = before[index].title
       /\ StatusRank(after[index].status) >= StatusRank(before[index].status)

\* the steps the view that rendered the turn derives from a message list
StepsAsRendered(messages) ==
  IF rendered[1].by = "chat-form"
  THEN buildWorkflowSteps_chatform(messages)
  ELSE buildWorkflowSteps_components(messages)

\* C37: the steps buildWorkflowSteps derives are monotone as the message
\* list grows: the steps derived from a list are found again, in order and
\* at their positions, among the steps derived from every list that extends
\* it, and none of them goes back from complete to active or from active to
\* pending.
C37_StepStatusMonotone ==
  rendered # <<>> =>
    \A k \in 0..Len(props) :
      StepsGrow(StepsAsRendered(SubSeq(props, 1, k)), rendered[1].steps)

(* -------------------------------- C38 ---------------------------------- *)

\* the positions a sequence of positions holds
PositionsIn(members) == { members[n] : n \in 1..Len(members) }

\* among the steps derived, those created before position i with the
\* title, none of whose messages before i is an end message
OpenStepsBefore(steps, messages, i, title) ==
  { k \in 1..Len(steps) :
      /\ steps[k].members[1] < i
      /\ steps[k].title = title
      /\ ~\E j \in PositionsIn(steps[k].members) :
            j < i /\ isEndMessage(messages[j]) }

\* the step a message at position i that is no start message belongs to:
\* the last of the open steps of its title, else one it creates
AttachesAsRuled(steps, messages, i, k) ==
  LET open == OpenStepsBefore(steps, messages, i, messages[i].title)
  IN  IF open = {}
      THEN steps[k].members[1] = i
      ELSE /\ k \in open
           /\ \A other \in open : other <= k

\* the kind of a step: that of the first of its messages that is a fetch
\* or an answer message, generic when it has none
KindAsRuled(steps, messages, k) ==
  LET special == { j \in PositionsIn(steps[k].members) :
                     determineStepKind(messages[j]) # "generic" }
  IN  IF special = {}
      THEN "generic"
      ELSE determineStepKind(messages[CHOOSE j \in special :
                                        \A other \in special : j <= other])

\* a step is complete exactly when one of its messages is an end message
\* or, a final answer being among the messages, it is the last step of
\* kind answer
CompleteAsRuled(steps, messages, k) ==
  steps[k].status = "complete"
    <=> \/ \E j \in PositionsIn(steps[k].members) : isEndMessage(messages[j])
        \/ /\ CountOfType(messages, "answer") > 0
           /\ steps[k].kind = "answer"
           /\ \A other \in 1..Len(steps) : steps[other].kind = "answer" => other <= k

\* C38: in the title-keyed buildWorkflowSteps every step message belongs to
\* exactly one step; a start message creates a new step; every other step
\* message attaches to the most recently created step of its title that
\* has not ended, or creates a step when there is none; the steps stand in
\* the order of their creation; every step is active or complete, never
\* pending; and a final answer completes the most recently created step of
\* kind answer and no other.
C38_TitleKeyedSteps ==
  (rendered # <<>> /\ rendered[1].by = "chat-form") =>
    LET steps == rendered[1].steps
        messages == props
    IN  /\ \A i \in 1..Len(messages) :
             LET owners == { k \in 1..Len(steps) : i \in PositionsIn(steps[k].members) }
             IN  IF ~isStepMessage(messages[i])
                 THEN owners = {}
                 ELSE /\ Cardinality(owners) = 1
                      /\ \A k \in owners :
                           IF isStartMessage(messages[i])
                           THEN steps[k].members[1] = i
                           ELSE AttachesAsRuled(steps, messages, i, k)
        /\ \A k \in 1..Len(steps) :
             /\ steps[k].members # << >>
             /\ steps[k].title = messages[steps[k].members[1]].title
             /\ \A n \in 1..(Len(steps[k].members) - 1) :
                  steps[k].members[n] < steps[k].members[n + 1]
             /\ k > 1 => steps[k - 1].members[1] < steps[k].members[1]
             /\ steps[k].status \in { "active", "complete" }
             /\ steps[k].kind = KindAsRuled(steps, messages, k)
             /\ CompleteAsRuled(steps, messages, k)

\* two search steps were started; the end closed the second and the status
\* message after it went to the first, still open
C38_Witness ==
  /\ rendered # <<>>
  /\ rendered[1].by = "chat-form"
  /\ Len(props) = 4
  /\ props[1] = StepMessage("step.start", SEARCH_STEP_TITLE)
  /\ props[2] = StepMessage("step.start", SEARCH_STEP_TITLE)
  /\ props[3] = StepMessage("step.end", SEARCH_STEP_TITLE)
  /\ props[4] = StepMessage("step.status", SEARCH_STEP_TITLE)
  /\ Len(rendered[1].steps) = 2
  /\ rendered[1].steps[1].members = << 1, 4 >>
  /\ rendered[1].steps[1].status = "active"
  /\ rendered[1].steps[2].members = << 2, 3 >>
  /\ rendered[1].steps[2].status = "complete"

=============================================================================
